---- MODULE Spec2Model ----
(***************************************************************************)
(* Model of the concurrent traffic generator, scripts/generate_traffic.py. *)
(*                                                                         *)
(* One worker thread per actor (UserSimulator.run), one reporter thread    *)
(* (stats_reporter) and the main thread (ConcurrentTrafficGenerator.run)   *)
(* interleave at the granularity of their accesses to the shared state:    *)
(* the operation registry, the bucket registry, the counters, the locks,   *)
(* the shutdown flags and the files under TEMP_DIR.                        *)
(*                                                                         *)
(* Paths are sequences of names relative to TEMP_DIR: << >> is TEMP_DIR,   *)
(* <<u>> is the actor directory os.path.join(TEMP_DIR, user_id) and        *)
(* <<u, n>> a file in it.  File sizes are counted in MiB.  In Spec time is *)
(* not modelled: a timeout is a step that may be taken whenever the        *)
(* awaited event has not happened, and the waits of the actor's loop are   *)
(* part of its position "loop".  The start_time and thread_id fields of an *)
(* operation record are never read by the program and are left out, and so *)
(* are the configuration files an actor in config_file mode keeps in its   *)
(* directory.                                                              *)
(*                                                                         *)
(* Further specifications over the same variables: SpecCleanup runs the    *)
(* final cleanup pass alone, SpecLive adds fairness to Spec, SpecWait      *)
(* unfolds the waits of the actor's loop into their sleeps, SpecLock runs  *)
(* the lock-file protocol of __main__ for several processes, SpecDisk and  *)
(* SpecListing run the actors with the verdict of each disk sample and the *)
(* result of each listing kept, and SpecActivity, SpecWeights and          *)
(* SpecGenerate apply get_current_activity_level, the size selection and   *)
(* generate_file to their inputs.  SpecUploads follows the uploads of one  *)
(* actor up to its target, with generate_subfolder_path and its recursion, *)
(* and SpecDrain the wait and the cleanup of an actor that shuts down.     *)
(***************************************************************************)
EXTENDS Integers, Sequences, FiniteSets, TLC

(* ------------------------------ bounds --------------------------------- *)

\* number of loop iterations the actors may start in all (the loops themselves
\* are unbounded)
MaxOps == 2

\* the actors (keys of USER_CONFIGS), in the order the supervisor submits them
UserOrder == <<"u1", "u2">>
Users == {UserOrder[i] : i \in 1..Len(UserOrder)}

\* destination containers an actor configuration may name
Buckets == {"b1", "b2"}

\* number of waits of the shutdown that may time out (an actor that is not
\* done when its wait is over)
MaxTimeouts == 1

\* number of external commands and file writes that may fail of themselves
\* (a failure forced by a missing file or directory is not counted)
MaxFaults == 1

\* artifact file names "{user_id}_{file_type}_{timestamp}{extension}"
ArtifactNames == {"art"}
\* download targets "downloaded_{filename}"
DownloadNames == {"downloaded_obj"}
Names == ArtifactNames \cup DownloadNames

\* artifact and object sizes, in MiB, on both sides of the large-file threshold
Sizes == {50, 51}

\* sizes (MB) of the objects a download fetches
ObjectSizes == {50}

\* subfolder paths the templates of an actor can produce ("" when disabled)
Subfolders == {"sub"}

(* --------------------------- configuration ----------------------------- *)

\* TTL_CONFIG['large_file_threshold_mb'] = LARGE_FILE_THRESHOLD // (1024*1024)
LARGE_FILE_THRESHOLD_MB == 50
PEAK_VOLUME_MIN == 500
PEAK_VOLUME_MAX == 2000
OFF_PEAK_VOLUME_MIN == 100
OFF_PEAK_VOLUME_MAX == 500

None == "none"

\* the value of a path variable that names no file
NoPath == <<None>>

TEMP_DIR == << >>
user_temp_dir(u) == <<u>>
FilePaths == {<<u, n>> : u \in Users, n \in Names}
DirPaths == {TEMP_DIR} \cup {user_temp_dir(u) : u \in Users}

\* os.path.dirname
Parent(p) == SubSeq(p, 1, Len(p) - 1)

VARIABLES
    pc,                 \* position of each actor's worker in UserSimulator.run
    bucket_of,          \* user_config['bucket'] of each actor (immutable)
    active_operations,  \* the operation registry: path -> [type, user_id]
    created_buckets,    \* the bucket registry
    bucket_creation_lock, \* holder of bucket_creation_lock, or None
    stats_lock,         \* holder of stats_lock, or None
    global_stats,       \* the global counters
    user_stats,         \* the per-actor counters
    running,            \* the module-level flag `running`
    shutdown_event,     \* shutdown_event.is_set()
    user_stopped,       \* user_stopped.is_set() of each actor
    files,              \* the files that exist under TEMP_DIR
    dirs,               \* the directories that exist (TEMP_DIR included)
    local_path,         \* local variable local_path / file_path of each actor
    size_bytes,         \* local variable size_bytes / file_size of each actor
    success,            \* local variable success of each actor
    used_subfolders,    \* self.used_subfolders of each actor
    iterations,         \* loop iterations each actor has started
    last_disk_check,    \* self.last_disk_check: 0, or the iteration of the last sample
    mb_issued,          \* create-container invocations issued, per container
    ebe_result,         \* what ensure_bucket_exists returned to each actor
    sup_pc,             \* position of the main thread in the supervisor's run
    sup_i,              \* index of the future the supervisor is waiting on
    completed_users,    \* completed_users of the shutdown sequence
    walk_pending,       \* directories os.walk has still to list
    walk_files,         \* files of the listed directory still to be checked
    remaining_files,    \* remaining_files of the final cleanup (walk order)
    protected_files,    \* protected_files of the final cleanup
    files_removed,      \* files_removed of the final cleanup
    rep_pc,             \* position of the stats_reporter thread
    scenario,           \* bookkeeping of the two-pass cleanup scenario
    faults,             \* the spontaneous failures of commands and writes so far
    interval,           \* local variable interval of run, in tenths of a second
    chunks_left,        \* iterations the sleep loop of each actor has left
    late_sleep,         \* tenths each actor slept in increments that ended
                        \* with the signal set
    proc_pc,            \* position of each generator process in __main__
    lock_path,          \* the file LOCK_FILE names (an index), or 0
    lock_inodes,        \* every lock file made so far: content and flock holder
    lock_fd,            \* the file each process has open as lock_fd, or 0
    read_pid,           \* the pid check_if_running has read, per process
    made,               \* what each process has created besides the lock
    sample_verdict,     \* what the last disk sample of each actor found
    calc_pc,            \* the position of the computation under study
    current_hour,       \* datetime.now().hour
    timezone_offset,    \* user_config['timezone_offset'], in half hours
    peak_hours,         \* user_config['peak_hours']
    activity_multiplier,\* user_config['activity_multiplier'], in hundredths
    forced_peak,        \* hash(self.user_id) % 10 < 8
    disk_ok,            \* what check_disk_space returns to the level
    is_peak,            \* get_current_activity_level's is_peak
    activity_level,     \* what get_current_activity_level returns, hundredths
    volume_band,        \* the branch run takes for ops_per_min
    ops_per_min,        \* run's ops_per_min
    base_interval,      \* run's base_interval, in milliseconds
    weights_table,      \* FILE_TYPES[file_type]['weights'], in hundredths
    small_file_bias,    \* HIGH_VOLUME_CONFIG['small_file_bias'], hundredths
    file_type,          \* the file type of the last selection
    size_weights,       \* the weights the last selection drew its range with
    selections,         \* the number of selections made
    req_type,           \* generate_file's file_type
    req_size,           \* generate_file's size_bytes
    content,            \* the text built so far, as the byte width of each
                        \* of its characters
    chunk_size,         \* generate_file's chunk_size
    remaining,          \* generate_file's remaining
    written,            \* the byte length of the file written
    listing,            \* the result of each actor's last listing
    up_pc,              \* the position of the actor whose uploads are counted
    total_files_created,\* self.total_files_created
    files_per_subfolder,\* self.files_per_subfolder
    gsp_stack,          \* the suspended calls of generate_subfolder_path:
                        \* the path each drew and the attempt it is in
    gsp_ret,            \* the value a call of it has returned
    subfolder_path,     \* upload_operation's subfolder_path
    subfolder_templates,\* the paths self.subfolder_templates can produce
    drain_pc,           \* where wait_for_user_operations_complete is
    polls_left,         \* the polls that fit in what is left of its timeout
    wait_result         \* what it returned

vars == <<pc, bucket_of, active_operations, created_buckets,
          bucket_creation_lock, stats_lock, global_stats, user_stats,
          running, shutdown_event, user_stopped, files, dirs, local_path,
          size_bytes, success, used_subfolders, iterations, last_disk_check,
          mb_issued,
          ebe_result, sup_pc, sup_i, completed_users, walk_pending,
          walk_files, remaining_files, protected_files, files_removed,
          rep_pc, scenario, faults, interval, chunks_left, late_sleep,
          proc_pc, lock_path, lock_inodes, lock_fd, read_pid, made,
          sample_verdict, calc_pc, current_hour, timezone_offset,
          peak_hours, activity_multiplier, forced_peak, disk_ok, is_peak,
          activity_level, volume_band, ops_per_min, base_interval,
          weights_table, small_file_bias, file_type, size_weights,
          selections, req_type, req_size, content, chunk_size, remaining,
          written, listing, up_pc, total_files_created,
          files_per_subfolder, gsp_stack, gsp_ret, subfolder_path,
          subfolder_templates, drain_pc, polls_left, wait_result>>

\* groups of variables, for UNCHANGED
registryVars == <<active_operations>>
bucketVars == <<created_buckets, bucket_creation_lock, mb_issued, ebe_result>>
statsVars == <<stats_lock, global_stats, user_stats>>
flagVars == <<running, shutdown_event, user_stopped>>
fsVars == <<files, dirs>>
localVars == <<local_path, size_bytes, success, used_subfolders, iterations,
               last_disk_check>>
cleanupVars == <<walk_pending, walk_files, remaining_files, protected_files,
                 files_removed>>
supVars == <<sup_pc, sup_i, completed_users>>
waitVars == <<interval, chunks_left, late_sleep>>
lockVars == <<proc_pc, lock_path, lock_inodes, lock_fd, read_pid, made>>
diskVars == <<sample_verdict>>
activityVars ==
    <<current_hour, timezone_offset, peak_hours, activity_multiplier,
      forced_peak, disk_ok, is_peak, activity_level, volume_band,
      ops_per_min, base_interval>>
weightVars ==
    <<weights_table, small_file_bias, file_type, size_weights, selections>>
genVars == <<req_type, req_size, content, chunk_size, remaining, written>>
calcVars == <<calc_pc, activityVars, weightVars, genVars>>
listVars == <<listing>>
capVars ==
    <<up_pc, total_files_created, files_per_subfolder, gsp_stack, gsp_ret,
      subfolder_path, subfolder_templates>>
drainVars == <<drain_pc, polls_left, wait_result>>
auxVars ==
    <<waitVars, lockVars, diskVars, calcVars, listVars, capVars, drainVars>>
otherVars == <<bucket_of, rep_pc, scenario, auxVars>>

(* ------------------------- operation registry -------------------------- *)

\* a registry that attributes every record to the first actor
register_operation_oneOwner(ops, file_path, operation_type, user_id) ==
    [p \in DOMAIN ops \cup {file_path} |->
        IF p = file_path THEN [type |-> operation_type,
                               user_id |-> UserOrder[1]]
                         ELSE ops[p]]

\* register_operation: active_operations[file_path] = {...}
register_operation(ops, file_path, operation_type, user_id) ==
    [p \in DOMAIN ops \cup {file_path} |->
        IF p = file_path THEN [type |-> operation_type, user_id |-> user_id]
                         ELSE ops[p]]

\* a slip that forgets to drop the record
unregister_operation_keep(ops, file_path) == ops

\* unregister_operation: active_operations.pop(file_path, None)
unregister_operation(ops, file_path) ==
    [p \in DOMAIN ops \ {file_path} |-> ops[p]]

\* a slip that never finds a path registered
is_file_in_use_never(ops, file_path) == FALSE

\* is_file_in_use: file_path in active_operations
is_file_in_use(ops, file_path) == file_path \in DOMAIN ops

\* get_active_operations_for_user
get_active_operations_for_user(ops, user_id) ==
    {p \in DOMAIN ops : ops[p].user_id = user_id}

(* ------------------------------ counters ------------------------------- *)

\* size_mb > TTL_CONFIG['large_file_threshold_mb']
IsLargeFile(size) == size > LARGE_FILE_THRESHOLD_MB

\* global_stats as the module creates it
InitGlobalStats ==
    [operations |-> 0, uploads |-> 0, downloads |-> 0, errors |-> 0,
     files_created |-> 0, large_files_created |-> 0,
     ttl_policies_applied |-> 0, bytes_transferred |-> 0]

\* user_stats[user_id] as UserSimulator.__init__ creates it
InitUserStats ==
    [operations |-> 0, uploads |-> 0, downloads |-> 0, errors |-> 0,
     bytes_transferred |-> 0, files_created |-> 0, large_files |-> 0,
     subfolders_used |-> 0, disk_space_checks |-> 0]

\* generate_file: the global half of the "Update stats" block
FileCreatedGlobal(g, size) ==
    [g EXCEPT !.files_created = @ + 1,
              !.large_files_created = IF IsLargeFile(size) THEN @ + 1 ELSE @]

\* a slip that counts the file for the actor only when it is large
FileCreatedUser_onlyLarge(s, size) ==
    [s EXCEPT !.files_created = IF IsLargeFile(size) THEN @ + 1 ELSE @,
              !.large_files = IF IsLargeFile(size) THEN @ + 1 ELSE @]

\* generate_file: the per-actor half of the "Update stats" block
FileCreatedUser(s, size) ==
    [s EXCEPT !.files_created = @ + 1,
              !.large_files = IF IsLargeFile(size) THEN @ + 1 ELSE @]

\* global_stats['errors'] += 1
ErrorGlobal(g) == [g EXCEPT !.errors = @ + 1]

\* user_stats[self.user_id]['errors'] += 1
ErrorUser(s) == [s EXCEPT !.errors = @ + 1]

\* a slip that forgets to count the upload as an operation
UploadGlobal_noOperation(g, size) ==
    [g EXCEPT !.uploads = @ + 1, !.bytes_transferred = @ + size]

\* upload_operation: the global half of the success block
UploadGlobal(g, size) ==
    [g EXCEPT !.uploads = @ + 1, !.operations = @ + 1,
              !.bytes_transferred = @ + size]

\* upload_operation: the per-actor half of the success block
UploadUser(s, size) ==
    [s EXCEPT !.uploads = @ + 1, !.operations = @ + 1,
              !.bytes_transferred = @ + size]

\* download_operation: the global half of the success block
DownloadGlobal(g, size) ==
    [g EXCEPT !.downloads = @ + 1, !.operations = @ + 1,
              !.bytes_transferred = @ + size]

\* download_operation: the per-actor half of the success block
DownloadUser(s, size) ==
    [s EXCEPT !.downloads = @ + 1, !.operations = @ + 1,
              !.bytes_transferred = @ + size]

\* apply_ttl_policy: global_stats['ttl_policies_applied'] += 1
TtlApplied(g) == [g EXCEPT !.ttl_policies_applied = @ + 1]

\* check_disk_space: user_stats[self.user_id]['disk_space_checks'] += 1
DiskChecked(s) == [s EXCEPT !.disk_space_checks = @ + 1]

\* generate_subfolder_path: user_stats[self.user_id]['subfolders_used'] += 1
SubfolderUsed(s) == [s EXCEPT !.subfolders_used = @ + 1]

(* -------------------------------- locks -------------------------------- *)

\* a slip that drops `with bucket_creation_lock`
BucketLockFree_unguarded == TRUE

\* bucket_creation_lock can be acquired
BucketLockFree == bucket_creation_lock = None

\* a slip that drops `with stats_lock`
StatsLockFree_unguarded == TRUE

\* stats_lock can be acquired
StatsLockFree == stats_lock = None

(* ------------------------------ file system ---------------------------- *)

\* os.path.exists(file_path)
Exists(fs, p) == p \in fs

\* a file comes to exist at p (open(..., 'w'), or the fetch of an object)
WriteFile(fs, p) == fs \cup {p}

\* os.remove(p)
RemoveFile(fs, p) == fs \ {p}

\* the files directly inside directory d (one level of os.walk)
FilesIn(fs, d) == {p \in fs : Parent(p) = d}

\* the sub-directories directly inside directory d
SubdirsIn(ds, d) == {e \in ds : e # TEMP_DIR /\ Parent(e) = d}

\* the files anywhere below directory d
FilesBelow(fs, d) ==
    {p \in fs : Len(p) > Len(d) /\ SubSeq(p, 1, Len(d)) = d}

\* an os.rmdir that does not look at the files in the directory
CanRmdir_ignoresFiles(fs, ds, d) ==
    d \in ds /\ SubdirsIn(ds, d) = {}

\* os.rmdir succeeds only on an existing directory with no entry in it
CanRmdir(fs, ds, d) ==
    d \in ds /\ FilesIn(fs, d) = {} /\ SubdirsIn(ds, d) = {}

EmptyMap == [p \in {} |-> None]

(* -------------------------------- Init --------------------------------- *)

\* the generator processes that are started, by pid
Procs == {"p1", "p2", "p3"}

\* no actor is in a wait
InitWait ==
    /\ interval = [u \in Users |-> 0]
    /\ chunks_left = [u \in Users |-> 0]
    /\ late_sleep = [u \in Users |-> 0]

\* no process has been started and LOCK_FILE does not exist
InitLock ==
    /\ proc_pc = [p \in Procs |-> "check"]
    /\ lock_path = 0
    /\ lock_inodes = << >>
    /\ lock_fd = [p \in Procs |-> 0]
    /\ read_pid = [p \in Procs |-> None]
    /\ made = [p \in Procs |-> {}]

\* no actor has sampled the disk
InitDisk == sample_verdict = [u \in Users |-> None]

\* the result of a listing: the exit status, the lines of the output after
\* strip() and split, each as its number of fields, and the index of the
\* line chosen (0 when none was)
NoListing == [returncode |-> -1, lines |-> << >>, file_line |-> 0]

\* no actor has listed its container
InitListing == listing = [u \in Users |-> NoListing]

\* the actor whose uploads are counted has not been constructed
InitUploads ==
    /\ up_pc = "init"
    /\ subfolder_templates = {}
    /\ total_files_created = 0
    /\ files_per_subfolder = EmptyMap
    /\ gsp_stack = << >>
    /\ gsp_ret = None
    /\ subfolder_path = None

\* no call of wait_for_user_operations_complete is followed
InitDrainIdle ==
    /\ drain_pc = "idle"
    /\ polls_left = 0
    /\ wait_result = "none"

\* no activity level has been computed
ActivityIdle ==
    /\ current_hour = 0
    /\ timezone_offset = 0
    /\ peak_hours = <<0, 0>>
    /\ activity_multiplier = 0
    /\ forced_peak = FALSE
    /\ disk_ok = TRUE
    /\ is_peak = FALSE
    /\ activity_level = 0
    /\ volume_band = None
    /\ ops_per_min = 0
    /\ base_interval = 0

\* no size has been selected
WeightsIdle ==
    /\ weights_table = << >>
    /\ small_file_bias = 0
    /\ file_type = None
    /\ size_weights = << >>
    /\ selections = 0

\* no file is being generated
GenerateIdle ==
    /\ req_type = None
    /\ req_size = 0
    /\ content = << >>
    /\ chunk_size = 0
    /\ remaining = 0
    /\ written = 0

\* no computation is under study
InitCalc ==
    /\ calc_pc = "idle"
    /\ ActivityIdle
    /\ WeightsIdle
    /\ GenerateIdle

\* the configurations: every actor with a bucket of its own, as in
\* USER_CONFIGS, and all actors on one bucket
BucketConfigs ==
    { [u \in Users |-> IF u = UserOrder[1] THEN "b1" ELSE "b2"],
      [u \in Users |-> "b1"] }

NoScenario == [pass |-> 0]

InitProgram ==
    /\ pc = [u \in Users |-> "start"]
    /\ bucket_of \in BucketConfigs
    /\ active_operations = EmptyMap
    /\ created_buckets = {}
    /\ bucket_creation_lock = None
    /\ stats_lock = None
    /\ global_stats = InitGlobalStats
    /\ user_stats = [u \in Users |-> InitUserStats]
    /\ running = TRUE
    /\ shutdown_event = FALSE
    /\ user_stopped = [u \in Users |-> FALSE]
    /\ files = {}
    /\ dirs = DirPaths
    /\ local_path = [u \in Users |-> NoPath]
    /\ size_bytes = [u \in Users |-> 0]
    /\ success = [u \in Users |-> FALSE]
    /\ used_subfolders = [u \in Users |-> {}]
    /\ iterations = [u \in Users |-> 0]
    /\ last_disk_check = [u \in Users |-> 0]
    /\ mb_issued = [b \in Buckets |-> 0]
    /\ ebe_result = [u \in Users |-> None]
    /\ sup_pc = "run"
    /\ sup_i = 1
    /\ completed_users = << >>
    /\ walk_pending = {}
    /\ walk_files = {}
    /\ remaining_files = << >>
    /\ protected_files = << >>
    /\ files_removed = 0
    /\ rep_pc = "wait"
    /\ scenario = NoScenario
    /\ faults = 0
    /\ InitWait
    /\ InitLock
    /\ InitDisk
    /\ InitListing
    /\ InitUploads
    /\ InitDrainIdle

Init == InitProgram /\ InitCalc

(* ----------------- building blocks of the actors' steps ---------------- *)

\* actor u moves from one position to the next
Goto(u, from, to) == pc[u] = from /\ pc' = [pc EXCEPT ![u] = to]

\* `with stats_lock:` entered by actor u, the global counters updated
StatsEnter(u, g) ==
    /\ StatsLockFree
    /\ stats_lock' = u
    /\ global_stats' = g
    /\ UNCHANGED user_stats

\* a block that is left with the mutex still held
StatsLeave_holds(u, s) ==
    /\ stats_lock = u
    /\ UNCHANGED stats_lock
    /\ user_stats' = [user_stats EXCEPT ![u] = s]
    /\ UNCHANGED global_stats

\* the per-actor counters updated, the `with stats_lock:` block left
StatsLeave(u, s) ==
    /\ stats_lock = u
    /\ stats_lock' = None
    /\ user_stats' = [user_stats EXCEPT ![u] = s]
    /\ UNCHANGED global_stats

\* results of run_obsctl_command's subprocess.run
CommandOutcomes == {"ok", "nonzero", "timeout", "exception"}

\* what no step of an actor's worker changes
mainVars == <<supVars, cleanupVars, otherVars>>
envVars == <<mainVars, faults>>

\* a failure of an external command or of a file operation: one the
\* circumstances force (the file or directory it needs is gone), or one more
\* of the spontaneous failures
Fault(forced) ==
    IF forced THEN UNCHANGED faults
    ELSE faults < MaxFaults /\ faults' = faults + 1

\* the operation has returned: its locals are gone, the inter-operation wait
\* and then the loop condition follow
Return(u) ==
    /\ pc' = [pc EXCEPT ![u] = "loop"]
    /\ local_path' = [local_path EXCEPT ![u] = NoPath]
    /\ size_bytes' = [size_bytes EXCEPT ![u] = 0]
    /\ success' = [success EXCEPT ![u] = FALSE]

(* ----------------- UserSimulator.ensure_bucket_exists ------------------ *)

\* a slip that leaves the container unmarked when its creation failed
MarkOnCreateFailure_skip(cb, b) == cb

\* the creation failed: created_buckets.add(self.bucket)  # Assume it exists
MarkOnCreateFailure(cb, b) == cb \cup {b}

\* run() calls ensure_bucket_exists; the lock is taken and the set consulted
EbeEnter(u) ==
    /\ pc[u] = "start"
    /\ BucketLockFree
    /\ IF bucket_of[u] \in created_buckets
         THEN /\ pc' = [pc EXCEPT ![u] = "loop"]
              /\ ebe_result' = [ebe_result EXCEPT ![u] = "True"]
              /\ UNCHANGED bucket_creation_lock
         ELSE /\ pc' = [pc EXCEPT ![u] = "ebe_probe"]
              /\ bucket_creation_lock' = u
              /\ UNCHANGED ebe_result
    /\ UNCHANGED <<created_buckets, mb_issued, registryVars, statsVars,
                   flagVars, fsVars, localVars, envVars>>

\* the probe `ls s3://bucket/`: exit code 0, another exit code, or an exception
EbeProbe(u) ==
    /\ pc[u] = "ebe_probe"
    /\ \E r \in {"exists", "missing", "exception"} :
         IF r = "exists"
           THEN /\ created_buckets' = created_buckets \cup {bucket_of[u]}
                /\ bucket_creation_lock' = None
                /\ ebe_result' = [ebe_result EXCEPT ![u] = "True"]
                /\ pc' = [pc EXCEPT ![u] = "loop"]
           ELSE /\ pc' = [pc EXCEPT ![u] = "ebe_create"]
                /\ UNCHANGED <<created_buckets, bucket_creation_lock,
                               ebe_result>>
    /\ UNCHANGED <<mb_issued, registryVars, statsVars, flagVars, fsVars,
                   localVars, envVars>>

\* run_obsctl_command(['mb', ...]): the create-container invocation; when it
\* fails run_obsctl_command enters `with stats_lock:` and counts the error
EbeCreate(u) ==
    /\ pc[u] = "ebe_create"
    /\ mb_issued' = [mb_issued EXCEPT ![bucket_of[u]] = @ + 1]
    /\ \E r \in CommandOutcomes :
         /\ success' = [success EXCEPT ![u] = (r = "ok")]
         /\ IF r = "ok"
              THEN /\ pc' = [pc EXCEPT ![u] = "ebe_mark"]
                   /\ UNCHANGED statsVars
                   /\ UNCHANGED faults
              ELSE /\ pc' = [pc EXCEPT ![u] = "ebe_err_u"]
                   /\ StatsEnter(u, ErrorGlobal(global_stats))
                   /\ Fault(FALSE)
    /\ UNCHANGED <<created_buckets, bucket_creation_lock, ebe_result,
                   registryVars, flagVars, fsVars, local_path,
                   size_bytes, used_subfolders, iterations, last_disk_check,
                   mainVars>>

\* the container is marked whatever the creation returned; return True
EbeMark(u) ==
    /\ pc[u] = "ebe_mark"
    /\ created_buckets' =
          IF success[u] THEN created_buckets \cup {bucket_of[u]}
                        ELSE MarkOnCreateFailure(created_buckets, bucket_of[u])
    /\ bucket_creation_lock' = None
    /\ ebe_result' = [ebe_result EXCEPT ![u] = "True"]
    /\ Return(u)
    /\ UNCHANGED <<mb_issued, registryVars, statsVars, flagVars, fsVars,
                   used_subfolders, iterations, last_disk_check, envVars>>

(* ------------------------- error counting ------------------------------ *)

\* the places where an error is counted inside `with stats_lock:`, and where
\* the actor goes afterwards: run_obsctl_command (mb, upload cp, download cp),
\* upload_operation after a failed generate_file, download_operation's
\* exception handler
ErrorSites ==
    { [mid |-> "ebe_err_u",   to |-> "ebe_mark"],
      [mid |-> "up_generr_u", to |-> "loop"],
      [mid |-> "up_err_u",    to |-> "up_unreg"],
      [mid |-> "dl_err_u",    to |-> "dl_unreg"],
      [mid |-> "dl_exc_u",    to |-> "loop"] }

\* the places where the lock is entered in a step of its own: after
\* generate_file returned None, and after the download's copy failed
ErrorEntries ==
    { [at |-> "up_generr", mid |-> "up_generr_u"],
      [at |-> "dl_err",    mid |-> "dl_err_u"] }

\* with stats_lock: global_stats['errors'] += 1
ErrorEnter(u) ==
    /\ \E s \in ErrorEntries : Goto(u, s.at, s.mid)
    /\ StatsEnter(u, ErrorGlobal(global_stats))
    /\ UNCHANGED <<registryVars, bucketVars, flagVars, fsVars, localVars,
                   envVars>>

\* an error that ends the actor's loop where it ends the operation
ErrorLeave_leavesLoop(u) ==
    /\ \E s \in ErrorSites :
         /\ pc[u] = s.mid
         /\ pc' = [pc EXCEPT ![u] = IF s.to = "loop" THEN "drain" ELSE s.to]
         /\ UNCHANGED <<local_path, size_bytes, success>>
    /\ StatsLeave(u, ErrorUser(user_stats[u]))
    /\ UNCHANGED <<registryVars, bucketVars, flagVars, fsVars,
                   used_subfolders, iterations, last_disk_check, envVars>>

\* user_stats[self.user_id]['errors'] += 1, and the lock released; the
\* operation returns False where the error ends it
ErrorLeave(u) ==
    /\ \E s \in ErrorSites :
         /\ pc[u] = s.mid
         /\ IF s.to = "loop"
              THEN Return(u)
              ELSE /\ pc' = [pc EXCEPT ![u] = s.to]
                   /\ UNCHANGED <<local_path, size_bytes, success>>
    /\ StatsLeave(u, ErrorUser(user_stats[u]))
    /\ UNCHANGED <<registryVars, bucketVars, flagVars, fsVars,
                   used_subfolders, iterations, last_disk_check, envVars>>

(* --------------------------- the actor's loop -------------------------- *)

\* outcomes of a disk sample: above the stop threshold, at or below it, at or
\* below the emergency threshold
DiskVerdicts == {"ok", "stop", "emergency"}

\* check_disk_space: `current_time - self.last_disk_check < interval` cannot
\* hold before the first sample (last_disk_check is 0), and holds when the
\* last sample was taken in iteration `now` (the 30 seconds do not pass
\* between get_current_activity_level and the operation it precedes); later
\* it may or may not
ElapsedChoices(u, now) ==
    IF last_disk_check[u] = 0 THEN {TRUE}
    ELSE IF last_disk_check[u] = now THEN {FALSE}
    ELSE BOOLEAN

\* check_disk_space's result: True unless a sample was taken and found the
\* free space at or below a threshold
DiskOk(elapsed, verdict) == ~elapsed \/ verdict = "ok"

\* the loop iterations started so far, by all actors
RECURSIVE SumOver(_, _)
SumOver(f, S) ==
    IF S = {} THEN 0
    ELSE LET x == CHOOSE y \in S : TRUE IN f[x] + SumOver(f, S \ {x})

IterationsStarted == SumOver(iterations, Users)

\* a loop condition that misses the shutdown request
ShutdownRequested_never == FALSE

\* the condition of run's while loop is false
ShutdownRequested == ~running \/ shutdown_event

\* while running and not shutdown_event.is_set(): the loop is left for the
\* shutdown part of run, or an iteration begins: get_current_activity_level
\* (whose check_disk_space may take and count a sample) and the choice
\* between upload_operation and download_operation
LoopCheck(u) ==
    /\ pc[u] = "loop"
    /\ IF ShutdownRequested
         THEN /\ pc' = [pc EXCEPT ![u] = "drain"]
              /\ UNCHANGED <<iterations, last_disk_check, statsVars>>
         ELSE /\ IterationsStarted < MaxOps
              /\ iterations' = [iterations EXCEPT ![u] = @ + 1]
              /\ \E elapsed \in ElapsedChoices(u, iterations'[u]) :
                   IF elapsed
                     THEN /\ StatsLockFree
                          /\ user_stats' = [user_stats EXCEPT
                                              ![u] = DiskChecked(@)]
                          /\ last_disk_check' =
                                [last_disk_check EXCEPT
                                   ![u] = iterations'[u]]
                          /\ UNCHANGED <<stats_lock, global_stats>>
                     ELSE UNCHANGED <<last_disk_check, statsVars>>
              /\ \E op \in {"up_start", "dl_start"} :
                   pc' = [pc EXCEPT ![u] = op]
    /\ UNCHANGED <<registryVars, bucketVars, flagVars, fsVars, local_path,
                   size_bytes, success, used_subfolders, envVars>>

(* ------------------- UserSimulator.upload_operation -------------------- *)

\* upload_operation up to generate_file's first statement: check_disk_space
\* (return False on low disk), select_file_type_and_size,
\* generate_subfolder_path (a path not used before is counted), the file
\* name, and register_operation(file_path, 'generate', self.user_id)
UpBegin(u) ==
    /\ pc[u] = "up_start"
    /\ \E elapsed \in ElapsedChoices(u, iterations[u]),
          verdict \in DiskVerdicts :
         LET s1 == IF elapsed THEN DiskChecked(user_stats[u])
                              ELSE user_stats[u] IN
         /\ elapsed => StatsLockFree
         /\ last_disk_check' =
               IF elapsed
                 THEN [last_disk_check EXCEPT ![u] = iterations[u]]
                 ELSE last_disk_check
         /\ IF DiskOk(elapsed, verdict)
              THEN \E size \in Sizes, sub \in Subfolders, n \in ArtifactNames :
                     /\ sub \notin used_subfolders[u] => StatsLockFree
                     /\ user_stats' = [user_stats EXCEPT ![u] =
                                         IF sub \notin used_subfolders[u]
                                           THEN SubfolderUsed(s1) ELSE s1]
                     /\ used_subfolders' =
                           [used_subfolders EXCEPT ![u] = @ \cup {sub}]
                     /\ size_bytes' = [size_bytes EXCEPT ![u] = size]
                     /\ local_path' = [local_path EXCEPT ![u] = <<u, n>>]
                     /\ active_operations' =
                           register_operation(active_operations, <<u, n>>,
                                              "generate", u)
                     /\ pc' = [pc EXCEPT ![u] = "gen_write"]
                     /\ UNCHANGED success
              ELSE /\ user_stats' = [user_stats EXCEPT ![u] = s1]
                   /\ Return(u)
                   /\ UNCHANGED <<used_subfolders, registryVars>>
    /\ UNCHANGED <<stats_lock, global_stats, bucketVars, flagVars, fsVars,
                   iterations, envVars>>

\* generate_file's writes: the whole content is written; or an exception is
\* raised after the file was opened, which leaves a shorter file; or the open
\* itself fails (as it does when the actor directory is gone)
GenWrite(u) ==
    /\ pc[u] = "gen_write"
    /\ \/ /\ Parent(local_path[u]) \in dirs
          /\ files' = WriteFile(files, local_path[u])
          /\ pc' = [pc EXCEPT ![u] = "gen_stats"]
          /\ UNCHANGED faults
       \/ /\ Parent(local_path[u]) \in dirs
          /\ files' = WriteFile(files, local_path[u])
          /\ pc' = [pc EXCEPT ![u] = "gen_unreg_fail"]
          /\ Fault(FALSE)
       \/ /\ files' = files
          /\ pc' = [pc EXCEPT ![u] = "gen_unreg_fail"]
          /\ Fault(Parent(local_path[u]) \notin dirs)
    /\ UNCHANGED <<dirs, registryVars, bucketVars, statsVars, flagVars,
                   localVars, mainVars>>

\* with stats_lock: global_stats['files_created'] += 1 (and large files)
GenStatsEnter(u) ==
    /\ Goto(u, "gen_stats", "gen_stats_u")
    /\ StatsEnter(u, FileCreatedGlobal(global_stats, size_bytes[u]))
    /\ UNCHANGED <<registryVars, bucketVars, flagVars, fsVars, localVars,
                   envVars>>

\* user_stats[...]['files_created'] += 1 (and large files); lock released
GenStatsLeave(u) ==
    /\ Goto(u, "gen_stats_u", "gen_unreg")
    /\ StatsLeave(u, FileCreatedUser(user_stats[u], size_bytes[u]))
    /\ UNCHANGED <<registryVars, bucketVars, flagVars, fsVars, localVars,
                   envVars>>

\* generate_file's finally: unregister_operation(file_path); the function
\* returns file_path, or None after an exception
GenUnregister(u) ==
    /\ pc[u] \in {"gen_unreg", "gen_unreg_fail"}
    /\ active_operations' =
          unregister_operation(active_operations, local_path[u])
    /\ pc' = [pc EXCEPT ![u] = IF pc[u] = "gen_unreg" THEN "up_register"
                                                       ELSE "up_generr"]
    /\ UNCHANGED <<bucketVars, statsVars, flagVars, fsVars, localVars,
                   envVars>>

\* register_operation(local_path, 'upload', self.user_id)
UpRegister(u) ==
    /\ Goto(u, "up_register", "up_cp")
    /\ active_operations' =
          register_operation(active_operations, local_path[u], "upload", u)
    /\ UNCHANGED <<bucketVars, statsVars, flagVars, fsVars, localVars,
                   envVars>>

\* run_obsctl_command(['cp', local_path, s3_path]), which cannot succeed when
\* the local file is gone.  When it fails run_obsctl_command enters
\* `with stats_lock:` and counts the error; when it succeeds upload_operation
\* enters `with stats_lock:` and updates the global uploads, operations and
\* bytes_transferred
UpCopy(u) ==
    /\ pc[u] = "up_cp"
    /\ \E r \in CommandOutcomes :
         /\ r = "ok" => Exists(files, local_path[u])
         /\ success' = [success EXCEPT ![u] = (r = "ok")]
         /\ IF r = "ok"
              THEN /\ pc' = [pc EXCEPT ![u] = "up_stats_u"]
                   /\ StatsEnter(u, UploadGlobal(global_stats, size_bytes[u]))
                   /\ UNCHANGED faults
              ELSE /\ pc' = [pc EXCEPT ![u] = "up_err_u"]
                   /\ StatsEnter(u, ErrorGlobal(global_stats))
                   /\ Fault(~Exists(files, local_path[u]))
    /\ UNCHANGED <<registryVars, bucketVars, flagVars, fsVars,
                   local_path, size_bytes, used_subfolders, iterations,
                   last_disk_check, mainVars>>

\* the actor's uploads, operations and bytes_transferred; lock released
UpStatsLeave(u) ==
    /\ Goto(u, "up_stats_u", "up_unreg")
    /\ StatsLeave(u, UploadUser(user_stats[u], size_bytes[u]))
    /\ UNCHANGED <<registryVars, bucketVars, flagVars, fsVars, localVars,
                   envVars>>

\* after a successful copy apply_ttl_policy (with stats_lock:
\* global_stats['ttl_policies_applied'] += 1); then, in every case, the
\* finally block's unregister_operation(local_path)
UpUnregister(u) ==
    /\ Goto(u, "up_unreg", "up_remove")
    /\ IF success[u]
         THEN /\ StatsLockFree
              /\ global_stats' = TtlApplied(global_stats)
         ELSE UNCHANGED global_stats
    /\ active_operations' =
          unregister_operation(active_operations, local_path[u])
    /\ UNCHANGED <<stats_lock, user_stats, bucketVars, flagVars, fsVars,
                   localVars, envVars>>

\* an upload that leaves its local file behind
UpRemove_keepsFile(u) ==
    /\ pc[u] = "up_remove"
    /\ Return(u)
    /\ UNCHANGED <<fsVars, registryVars, bucketVars, statsVars, flagVars,
                   used_subfolders, iterations, last_disk_check, envVars>>

\* if os.path.exists(local_path) and not is_file_in_use(local_path):
\*     os.remove(local_path)
\* and upload_operation returns
UpRemove(u) ==
    /\ pc[u] = "up_remove"
    /\ files' = IF /\ Exists(files, local_path[u])
                   /\ ~is_file_in_use(active_operations, local_path[u])
                  THEN RemoveFile(files, local_path[u]) ELSE files
    /\ Return(u)
    /\ UNCHANGED <<dirs, registryVars, bucketVars, statsVars, flagVars,
                   used_subfolders, iterations, last_disk_check, envVars>>

(* ------------------ UserSimulator.download_operation ------------------- *)

\* the listing `ls s3://bucket/`: an object is picked and
\* register_operation(local_path, 'download', self.user_id) follows; or the
\* listing is empty or malformed or the exit code is not 0 (return False); or
\* an exception is raised, and the handler enters `with stats_lock:` and
\* counts the error
DlList(u) ==
    /\ pc[u] = "dl_start"
    /\ \/ \E n \in DownloadNames :
            /\ local_path' = [local_path EXCEPT ![u] = <<u, n>>]
            /\ active_operations' =
                  register_operation(active_operations, <<u, n>>,
                                     "download", u)
            /\ pc' = [pc EXCEPT ![u] = "dl_cp"]
            /\ UNCHANGED <<size_bytes, success, statsVars, faults>>
       \/ /\ Return(u)
          /\ UNCHANGED <<registryVars, statsVars, faults>>
       \/ /\ pc' = [pc EXCEPT ![u] = "dl_exc_u"]
          /\ StatsEnter(u, ErrorGlobal(global_stats))
          /\ Fault(FALSE)
          /\ UNCHANGED <<registryVars, local_path, size_bytes, success>>
    /\ UNCHANGED <<bucketVars, flagVars, fsVars, used_subfolders,
                   iterations, last_disk_check, mainVars>>

\* run_obsctl_command(['cp', s3_path, local_path]): the object is fetched into
\* the local file; or the command fails, with or without a truncated file
DlCopy(u) ==
    /\ pc[u] = "dl_cp"
    /\ \/ /\ Parent(local_path[u]) \in dirs
          /\ files' = WriteFile(files, local_path[u])
          /\ success' = [success EXCEPT ![u] = TRUE]
          /\ pc' = [pc EXCEPT ![u] = "dl_stats"]
          /\ UNCHANGED faults
       \/ /\ Parent(local_path[u]) \in dirs
          /\ files' = WriteFile(files, local_path[u])
          /\ success' = [success EXCEPT ![u] = FALSE]
          /\ pc' = [pc EXCEPT ![u] = "dl_err"]
          /\ Fault(FALSE)
       \/ /\ files' = files
          /\ success' = [success EXCEPT ![u] = FALSE]
          /\ pc' = [pc EXCEPT ![u] = "dl_err"]
          /\ Fault(Parent(local_path[u]) \notin dirs)
    /\ UNCHANGED <<dirs, registryVars, bucketVars, statsVars, flagVars,
                   local_path, size_bytes, used_subfolders, iterations,
                   last_disk_check, mainVars>>

\* file_size = os.path.getsize(local_path), which raises when the file is
\* gone (the inner handler then skips the counters and the removal);
\* with stats_lock: the global downloads, operations and bytes_transferred
DlStatsEnter(u) ==
    /\ pc[u] = "dl_stats"
    /\ IF Exists(files, local_path[u])
         THEN \E size \in ObjectSizes :
                /\ StatsEnter(u, DownloadGlobal(global_stats, size))
                /\ size_bytes' = [size_bytes EXCEPT ![u] = size]
                /\ pc' = [pc EXCEPT ![u] = "dl_stats_u"]
         ELSE /\ pc' = [pc EXCEPT ![u] = "dl_unreg"]
              /\ UNCHANGED <<statsVars, size_bytes>>
    /\ UNCHANGED <<registryVars, bucketVars, flagVars, fsVars, local_path,
                   success, used_subfolders, iterations, last_disk_check,
                   envVars>>

\* the actor's downloads, operations and bytes_transferred; lock released
DlStatsLeave(u) ==
    /\ Goto(u, "dl_stats_u", "dl_rm")
    /\ StatsLeave(u, DownloadUser(user_stats[u], size_bytes[u]))
    /\ UNCHANGED <<registryVars, bucketVars, flagVars, fsVars, localVars,
                   envVars>>

\* after the counters: if os.path.exists(local_path): os.remove(local_path);
\* then, in every case, the finally block's unregister_operation(local_path),
\* and download_operation returns
DlUnregister(u) ==
    /\ pc[u] \in {"dl_rm", "dl_unreg"}
    /\ files' = IF pc[u] = "dl_rm" THEN RemoveFile(files, local_path[u])
                                   ELSE files
    /\ active_operations' =
          unregister_operation(active_operations, local_path[u])
    /\ Return(u)
    /\ UNCHANGED <<dirs, bucketVars, statsVars, flagVars, used_subfolders,
                   iterations, last_disk_check, envVars>>

(* ------------------------ the actor's shutdown ------------------------- *)

\* a cleanup that walks the whole temp root
DrainRemovable_wholeRoot(u) ==
    {p \in files : ~is_file_in_use(active_operations, p)}

\* the files the actor's cleanup removes: those below its directory that
\* are not registered
DrainRemovable(u) ==
    {p \in FilesBelow(files, user_temp_dir(u)) :
        ~is_file_in_use(active_operations, p)}

\* run's finally block: wait_for_user_operations_complete (which returns
\* once the registry holds no record of the actor, or on its timeout), then
\* the walk of self.user_temp_dir and the attempt to remove the directory
DrainCleanup(u) ==
    /\ Goto(u, "drain", "stopping")
    /\ IF user_temp_dir(u) \in dirs
         THEN /\ files' = files \ DrainRemovable(u)
              /\ dirs' = IF CanRmdir(files', dirs, user_temp_dir(u))
                           THEN dirs \ {user_temp_dir(u)} ELSE dirs
         ELSE UNCHANGED fsVars
    /\ UNCHANGED <<registryVars, bucketVars, statsVars, flagVars, localVars,
                   envVars>>

\* an acknowledgment given where the finally block begins, before the wait
\* and the cleanup
ActorStopped_beforeCleanup(u) ==
    /\ Goto(u, "drain", "done")
    /\ user_stopped' = [user_stopped EXCEPT ![u] = TRUE]
    /\ UNCHANGED <<running, shutdown_event, registryVars, bucketVars,
                   statsVars, fsVars, localVars, envVars>>

\* self.user_stopped.set(); run returns
ActorStopped(u) ==
    /\ Goto(u, "stopping", "done")
    /\ user_stopped' = [user_stopped EXCEPT ![u] = TRUE]
    /\ UNCHANGED <<running, shutdown_event, registryVars, bucketVars,
                   statsVars, fsVars, localVars, envVars>>

(* -------------------- ConcurrentTrafficGenerator.run ------------------- *)

\* what no step of the main thread's shutdown sequence changes
actorVars == <<pc, registryVars, bucketVars, localVars, user_stopped, faults>>

\* a handler that flips the event instead of setting it
SignalHandler_toggle ==
    /\ sup_pc # "finished"
    /\ running' = FALSE
    /\ shutdown_event' = ~shutdown_event
    /\ UNCHANGED <<actorVars, statsVars, fsVars, mainVars>>

\* signal_handler: running = False; shutdown_event.set()
SignalHandler ==
    /\ sup_pc # "finished"
    /\ running' = FALSE
    /\ shutdown_event' = TRUE
    /\ UNCHANGED <<actorVars, statsVars, fsVars, mainVars>>

\* the duration has elapsed or the flags were seen; the finally block begins:
\* running = False; shutdown_event.set()
SupShutdown ==
    /\ sup_pc = "run"
    /\ running' = FALSE
    /\ shutdown_event' = TRUE
    /\ sup_pc' = "wait"
    /\ sup_i' = 1
    /\ UNCHANGED <<actorVars, statsVars, fsVars, completed_users, cleanupVars,
                   otherVars>>

\* the waits that have timed out so far: the futures waited on so far that
\* did not complete
WaitsTimedOut == (sup_i - 1) - Len(completed_users)

\* a shutdown that a timed-out wait ends
SupWait_abortsOnTimeout ==
    /\ sup_pc = "wait"
    /\ \/ /\ pc[UserOrder[sup_i]] = "done"
          /\ completed_users' = Append(completed_users, UserOrder[sup_i])
          /\ IF sup_i < Len(UserOrder)
               THEN sup_i' = sup_i + 1 /\ UNCHANGED sup_pc
               ELSE sup_pc' = "grace" /\ UNCHANGED sup_i
       \/ /\ pc[UserOrder[sup_i]] # "done"
          /\ WaitsTimedOut < MaxTimeouts
          /\ sup_pc' = "finished"
          /\ UNCHANGED <<completed_users, sup_i>>
    /\ UNCHANGED <<actorVars, statsVars, running, shutdown_event, fsVars,
                   cleanupVars, otherVars>>

\* a wait that counts a worker as completed when its wait timed out
SupWait_countsTimeout ==
    /\ sup_pc = "wait"
    /\ \/ /\ pc[UserOrder[sup_i]] = "done"
       \/ /\ pc[UserOrder[sup_i]] # "done"
          /\ WaitsTimedOut < MaxTimeouts
    /\ completed_users' = Append(completed_users, UserOrder[sup_i])
    /\ IF sup_i < Len(UserOrder)
         THEN sup_i' = sup_i + 1 /\ UNCHANGED sup_pc
         ELSE sup_pc' = "grace" /\ UNCHANGED sup_i
    /\ UNCHANGED <<actorVars, statsVars, running, shutdown_event, fsVars,
                   cleanupVars, otherVars>>

\* future.result(timeout=45) of the next actor: the worker has returned, or
\* the wait times out; either way the loop goes on to the next future
SupWait ==
    /\ sup_pc = "wait"
    /\ \/ /\ pc[UserOrder[sup_i]] = "done"
          /\ completed_users' = Append(completed_users, UserOrder[sup_i])
       \/ /\ pc[UserOrder[sup_i]] # "done"
          /\ WaitsTimedOut < MaxTimeouts
          /\ UNCHANGED completed_users
    /\ IF sup_i < Len(UserOrder)
         THEN sup_i' = sup_i + 1 /\ UNCHANGED sup_pc
         ELSE sup_pc' = "grace" /\ UNCHANGED sup_i
    /\ UNCHANGED <<actorVars, statsVars, running, shutdown_event, fsVars,
                   cleanupVars, otherVars>>

\* if os.path.exists(TEMP_DIR): remaining_files = []; protected_files = [],
\* and the walk begins at the root
WalkStart(ds) ==
    /\ IF TEMP_DIR \in ds
         THEN /\ sup_pc' = "walk"
              /\ walk_pending' = {TEMP_DIR}
         ELSE /\ sup_pc' = "finished"
              /\ walk_pending' = {}
    /\ walk_files' = {}
    /\ remaining_files' = << >>
    /\ protected_files' = << >>
    /\ files_removed' = 0

\* a shutdown that goes from the grace sleep straight to the cleanup
SupGrace_skipsReport ==
    /\ sup_pc = "grace"
    /\ WalkStart(dirs)
    /\ UNCHANGED <<actorVars, statsVars, running, shutdown_event, fsVars,
                   sup_i, completed_users, otherVars>>

\* "Waiting for remaining operations to complete...": time.sleep(5)
SupGrace ==
    /\ sup_pc = "grace"
    /\ sup_pc' = "report"
    /\ UNCHANGED <<actorVars, statsVars, running, shutdown_event, fsVars,
                   sup_i, completed_users, cleanupVars, otherVars>>

\* print_stats of the final report: `with stats_lock:` entered
SupReportEnter ==
    /\ sup_pc = "report"
    /\ StatsLockFree
    /\ stats_lock' = "main"
    /\ sup_pc' = "reporting"
    /\ UNCHANGED <<actorVars, global_stats, user_stats, running,
                   shutdown_event, fsVars, sup_i, completed_users,
                   cleanupVars, otherVars>>

\* print_stats of the final report: the counters were read, the block is left,
\* and the final cleanup begins
SupReportLeave ==
    /\ sup_pc = "reporting"
    /\ stats_lock' = None
    /\ WalkStart(dirs)
    /\ UNCHANGED <<actorVars, global_stats, user_stats, running,
                   shutdown_event, fsVars, sup_i, completed_users,
                   otherVars>>

\* where the main thread is once the walk has `pending` directories and
\* `listed` files left and has collected `rem`: in the walk, in the removal
\* loop, or (nothing to remove) at the removal of the empty directories
AfterWalk(pending, listed, rem) ==
    IF pending # {} \/ listed # {} THEN "walk"
    ELSE IF rem # << >> THEN "remove"
    ELSE "rmdirs"

\* os.walk(TEMP_DIR) lists the next directory: its files and sub-directories
\* as they are at that moment (a directory that is gone is skipped)
SupWalkDir ==
    /\ sup_pc = "walk"
    /\ walk_files = {}
    /\ \E d \in walk_pending :
         /\ walk_files' = IF d \in dirs THEN FilesIn(files, d) ELSE {}
         /\ walk_pending' = (walk_pending \ {d}) \cup
                            (IF d \in dirs THEN SubdirsIn(dirs, d) ELSE {})
    /\ sup_pc' = AfterWalk(walk_pending', walk_files', remaining_files)
    /\ UNCHANGED <<actorVars, statsVars, running, shutdown_event, fsVars,
                   sup_i, completed_users, remaining_files, protected_files,
                   files_removed, otherVars>>

\* the body of the walk for one file: is_file_in_use decides the list
SupWalkFile ==
    /\ sup_pc = "walk"
    /\ \E f \in walk_files :
         /\ walk_files' = walk_files \ {f}
         /\ IF is_file_in_use(active_operations, f)
              THEN /\ protected_files' = Append(protected_files, f)
                   /\ UNCHANGED remaining_files
              ELSE /\ remaining_files' = Append(remaining_files, f)
                   /\ UNCHANGED protected_files
    /\ sup_pc' = AfterWalk(walk_pending, walk_files', remaining_files')
    /\ UNCHANGED <<actorVars, statsVars, running, shutdown_event, fsVars,
                   sup_i, completed_users, walk_pending, files_removed,
                   otherVars>>

\* a slip that leaves the removal loop after the first file
RestAfterRemove_break(rem) == << >>

\* `for file_path in remaining_files`: what is left after one iteration
RestAfterRemove(rem) == Tail(rem)

\* os.remove(file_path) of the next remaining file; a failure (the file is
\* gone) is swallowed.  After the last one the protected and removed files
\* are logged
SupRemove ==
    /\ sup_pc = "remove"
    /\ remaining_files # << >>
    /\ LET f == Head(remaining_files) IN
         /\ files' = IF Exists(files, f) THEN RemoveFile(files, f) ELSE files
         /\ files_removed' = IF Exists(files, f) THEN files_removed + 1
                                                 ELSE files_removed
    /\ remaining_files' = RestAfterRemove(remaining_files)
    /\ sup_pc' = AfterWalk({}, {}, remaining_files')
    /\ UNCHANGED <<actorVars, statsVars, running, shutdown_event, dirs,
                   sup_i, completed_users, walk_pending, walk_files,
                   protected_files, otherVars>>

\* os.walk(TEMP_DIR, topdown=False) with os.rmdir of every directory, then
\* os.rmdir(TEMP_DIR): what is left once no empty directory remains
RECURSIVE RemoveEmptyDirs(_, _)
RemoveEmptyDirs(fs, ds) ==
    LET empty == {d \in ds : CanRmdir(fs, ds, d)} IN
    IF empty = {} THEN ds ELSE RemoveEmptyDirs(fs, ds \ empty)

\* the removal of the empty directories, children before parents
SupRmdirs ==
    /\ sup_pc = "rmdirs"
    /\ dirs' = RemoveEmptyDirs(files, dirs)
    /\ sup_pc' = "finished"
    /\ UNCHANGED <<actorVars, statsVars, running, shutdown_event, files,
                   sup_i, completed_users, cleanupVars, otherVars>>

(* ----------------------------- stats_reporter -------------------------- *)

\* after its wait the reporter finds `running and not shutdown_event.is_set()`
\* and calls print_stats, which enters `with stats_lock:`
RepEnter ==
    /\ rep_pc = "wait"
    /\ running /\ ~shutdown_event
    /\ StatsLockFree
    /\ stats_lock' = "reporter"
    /\ rep_pc' = "printing"
    /\ UNCHANGED <<actorVars, global_stats, user_stats, running,
                   shutdown_event, fsVars, supVars, cleanupVars, bucket_of,
                   scenario, auxVars>>

\* a report that counts itself as an operation
RepLeave_counting ==
    /\ rep_pc = "printing"
    /\ stats_lock' = None
    /\ rep_pc' = "wait"
    /\ global_stats' =
           [global_stats EXCEPT !.operations = global_stats.operations + 1]
    /\ UNCHANGED <<actorVars, user_stats, running,
                   shutdown_event, fsVars, supVars, cleanupVars, bucket_of,
                   scenario, auxVars>>

\* print_stats: the counters were read, the block is left
RepLeave ==
    /\ rep_pc = "printing"
    /\ stats_lock' = None
    /\ rep_pc' = "wait"
    /\ UNCHANGED <<actorVars, global_stats, user_stats, running,
                   shutdown_event, fsVars, supVars, cleanupVars, bucket_of,
                   scenario, auxVars>>

(* ------------------------------- Spec ---------------------------------- *)

ActorStep(u) ==
    \/ EbeEnter(u) \/ EbeProbe(u) \/ EbeCreate(u) \/ EbeMark(u)
    \/ ErrorEnter(u) \/ ErrorLeave(u)
    \/ LoopCheck(u)
    \/ UpBegin(u) \/ GenWrite(u) \/ GenStatsEnter(u) \/ GenStatsLeave(u)
    \/ GenUnregister(u)
    \/ UpRegister(u) \/ UpCopy(u) \/ UpStatsLeave(u)
    \/ UpUnregister(u) \/ UpRemove(u)
    \/ DlList(u) \/ DlCopy(u) \/ DlStatsEnter(u) \/ DlStatsLeave(u)
    \/ DlUnregister(u)
    \/ DrainCleanup(u) \/ ActorStopped(u)

CleanupStep == SupWalkDir \/ SupWalkFile \/ SupRemove \/ SupRmdirs

SupervisorStep ==
    \/ SignalHandler \/ SupShutdown \/ SupWait \/ SupGrace
    \/ SupReportEnter \/ SupReportLeave
    \/ CleanupStep

ReporterStep == RepEnter \/ RepLeave

Next ==
    \/ \E u \in Users : ActorStep(u)
    \/ SupervisorStep
    \/ ReporterStep

Spec == Init /\ [][Next]_vars

(* ----------------- the cleanup pass on its own, run twice -------------- *)

\* the registries that hold the paths of S, each owned by the actor whose
\* directory the path lies in
RegistryOf(S) == [p \in S |-> [type |-> "upload", user_id |-> p[1]]]

\* the final cleanup begins (the state SupReportLeave leaves) with any files
\* under TEMP_DIR and any registry; the actors that own a record are inside
\* their copy command, the others have returned
InitCleanup ==
    /\ files \in SUBSET FilePaths
    /\ \E S \in SUBSET FilePaths : active_operations = RegistryOf(S)
    /\ pc = [u \in Users |->
               IF get_active_operations_for_user(active_operations, u) = {}
                 THEN "done" ELSE "up_cp"]
    /\ user_stopped = [u \in Users |-> pc[u] = "done"]
    /\ bucket_of = [u \in Users |-> "b1"]
    /\ created_buckets = {"b1"}
    /\ bucket_creation_lock = None
    /\ stats_lock = None
    /\ global_stats = InitGlobalStats
    /\ user_stats = [u \in Users |-> InitUserStats]
    /\ running = FALSE
    /\ shutdown_event = TRUE
    /\ dirs = DirPaths
    /\ local_path = [u \in Users |-> NoPath]
    /\ size_bytes = [u \in Users |-> 0]
    /\ success = [u \in Users |-> FALSE]
    /\ used_subfolders = [u \in Users |-> {}]
    /\ iterations = [u \in Users |-> 0]
    /\ last_disk_check = [u \in Users |-> 0]
    /\ mb_issued = [b \in Buckets |-> 0]
    /\ ebe_result = [u \in Users |-> "True"]
    /\ sup_pc = "walk"
    /\ sup_i = Len(UserOrder)
    /\ completed_users = << >>
    /\ walk_pending = {TEMP_DIR}
    /\ walk_files = {}
    /\ remaining_files = << >>
    /\ protected_files = << >>
    /\ files_removed = 0
    /\ rep_pc = "wait"
    /\ scenario = [pass |-> 1, files0 |-> files,
                   held |-> DOMAIN active_operations, released |-> {},
                   files1 |-> {}, protected1 |-> << >>]
    /\ faults = 0
    /\ InitWait
    /\ InitLock
    /\ InitDisk
    /\ InitListing
    /\ InitUploads
    /\ InitDrainIdle
    /\ InitCalc

\* between the passes an actor completes: unregister_operation(path)
ScenarioComplete ==
    /\ sup_pc = "finished"
    /\ scenario.pass = 1
    /\ \E f \in DOMAIN active_operations :
         /\ active_operations' = unregister_operation(active_operations, f)
         /\ scenario' = [scenario EXCEPT !.released = @ \cup {f}]
    /\ UNCHANGED <<pc, bucketVars, statsVars, flagVars, fsVars, localVars,
                   supVars, cleanupVars, bucket_of, rep_pc, faults,
                   auxVars>>

\* the cleanup pass is run again: what the first pass left is noted
ScenarioSecondPass ==
    /\ sup_pc = "finished"
    /\ scenario.pass = 1
    /\ scenario' = [scenario EXCEPT !.pass = 2, !.files1 = files,
                                    !.protected1 = protected_files]
    /\ WalkStart(dirs)
    /\ UNCHANGED <<actorVars, statsVars, running, shutdown_event, fsVars,
                   sup_i, completed_users, bucket_of, rep_pc, auxVars>>

NextCleanup == CleanupStep \/ ScenarioComplete \/ ScenarioSecondPass

SpecCleanup == InitCleanup /\ [][NextCleanup]_vars

(* ------------------------------ properties ----------------------------- *)

\* the content of a sequence
Range(seq) == {seq[i] : i \in 1..Len(seq)}

\* the positions of an actor outside generate_file, upload_operation and
\* download_operation: at the loop condition or in its wait, and in the
\* shutdown part of run
OutsideActions == {"loop", "drain", "stopping", "done"}

\* the positions of an actor inside upload_operation whose generate_file
\* succeeds, from the first write on, before the finally block has dropped
\* the upload record
UploadInProgress ==
    {"gen_write", "gen_stats", "gen_stats_u", "gen_unreg", "up_register",
     "up_cp", "up_stats_u", "up_err_u", "up_unreg"}

\* no actor is inside an action or inside ensure_bucket_exists
NoActionInFlight == \A u \in Users : pc[u] \in OutsideActions \cup {"start"}

\* the sum of the per-actor values of counter c
SumOfUsers(c) == SumOver([u \in Users |-> user_stats[u][c]], Users)

\* the counters kept on both sides: the global key and the per-actor key
MirroredCounters ==
    { <<"operations", "operations">>, <<"uploads", "uploads">>,
      <<"downloads", "downloads">>, <<"errors", "errors">>,
      <<"files_created", "files_created">>,
      <<"large_files_created", "large_files">>,
      <<"bytes_transferred", "bytes_transferred">> }

\* the ten counters of the data model: the global key and the per-actor key,
\* None on the side where the program keeps no such counter
DataModelCounters ==
    MirroredCounters \cup
    { <<"ttl_policies_applied", None>>, <<None, "subfolders_used">>,
      <<None, "disk_space_checks">> }

\* the value a report shows for a counter: 0 on the side that does not keep it
GlobalValue(k) == IF k = None THEN 0 ELSE global_stats[k]
UsersValue(k) == IF k = None THEN 0 ELSE SumOfUsers(k)

\* C1: the final cleanup pass never removes a file whose path has a live
\* operation record at the moment of the removal
C1_CleanupNeverRemovesRegistered ==
    [][(sup_pc = "remove" /\ remaining_files' # remaining_files)
         => \A f \in files \ files' :
               ~is_file_in_use(active_operations, f)]_vars

\* C2: while an upload action is in progress and its artifact file is on
\* disk, the artifact's path has a record in the registry
C2_ArtifactRegisteredThroughoutUpload ==
    \A u \in Users :
        (pc[u] \in UploadInProgress /\ Exists(files, local_path[u]))
            => is_file_in_use(active_operations, local_path[u])

\* C3: whenever an actor is outside generate_file, upload_operation and
\* download_operation, the registry holds no record owned by that actor
C3_NoRecordOutsideActions ==
    \A u \in Users :
        pc[u] \in OutsideActions
            => get_active_operations_for_user(active_operations, u) = {}

C3_Witness ==
    \E u, v \in Users :
        /\ u # v
        /\ pc[u] = "loop" /\ user_stats[u].uploads = 1
        /\ pc[v] = "drain" /\ user_stats[v].errors = 1 /\ iterations[v] = 1

\* C4: with exactly one registered file on disk, the first cleanup pass
\* leaves exactly that file and lists it (alone) as protected; once its path
\* is unregistered, a second pass removes it
C4_ProtectedThenRemoved ==
    (Cardinality(scenario.held) = 1 /\ scenario.held \subseteq scenario.files0
        /\ sup_pc = "finished")
    => /\ (scenario.pass = 1 /\ scenario.released = {})
             => (files = scenario.held /\ Len(protected_files) = 1
                    /\ Range(protected_files) = scenario.held)
       /\ (scenario.pass = 2 /\ scenario.released = scenario.held)
             => (scenario.files1 = scenario.held /\ files = {})

C4_Witness ==
    /\ sup_pc = "finished"
    /\ scenario.pass = 2
    /\ Cardinality(scenario.held) = 1
    /\ scenario.held \subseteq scenario.files0
    /\ scenario.files0 # scenario.held
    /\ scenario.released = scenario.held
    /\ scenario.files1 = scenario.held
    /\ files = {}

\* C5: when the registry does not change between the passes, a second cleanup
\* pass leaves the files the first one left: the registered files, and no other
C5_CleanupIdempotent ==
    (sup_pc = "finished" /\ scenario.released = {})
    => /\ files = scenario.files0 \cap DOMAIN active_operations
       /\ scenario.pass = 2 => files = scenario.files1

C5_Witness ==
    /\ sup_pc = "finished"
    /\ scenario.pass = 2
    /\ scenario.released = {}
    /\ Cardinality(scenario.files0 \ scenario.files1) >= 2
    /\ scenario.files1 # {}
    /\ files = scenario.files1

\* C6: for every container name at most one create-container invocation is
\* issued
C6_AtMostOneCreatePerBucket == \A b \in Buckets : mb_issued[b] <= 1

C6_Witness ==
    \E u, v \in Users :
        /\ u # v
        /\ bucket_of[u] = bucket_of[v]
        /\ ebe_result[u] = "True" /\ ebe_result[v] = "True"
        /\ mb_issued[bucket_of[u]] = 1

\* C7: ensure_bucket_exists never returns False, and when it has returned the
\* container is marked in the bucket registry
C7_EnsureBucketReturnsTrueAndMarks ==
    \A u \in Users :
        /\ ebe_result[u] \in {None, "True"}
        /\ pc[u] \notin {"start", "ebe_probe", "ebe_create", "ebe_err_u",
                          "ebe_mark"}
              => (ebe_result[u] = "True" /\ bucket_of[u] \in created_buckets)

C7_Witness ==
    \E u \in Users :
        /\ pc[u] = "loop"
        /\ iterations[u] = 0
        /\ mb_issued[bucket_of[u]] = 1
        /\ user_stats[u].errors = 1
        /\ ebe_result[u] = "True"

\* C8: whenever no actor is inside a `with stats_lock:` block, operations =
\* uploads + downloads, globally and for each actor
C8_OperationsAreUploadsPlusDownloads ==
    stats_lock \notin Users
    => /\ global_stats.operations
             = global_stats.uploads + global_stats.downloads
       /\ \A u \in Users :
             user_stats[u].operations
                = user_stats[u].uploads + user_stats[u].downloads

C8_Witness ==
    /\ stats_lock = "main"
    /\ global_stats.uploads = 1
    /\ global_stats.downloads = 1

C10_SnapshotConsistent ==
    stats_lock \in {"reporter", "main"}
    => \A k \in {"operations", "uploads", "downloads", "errors",
                 "bytes_transferred", "files_created"} :
          global_stats[k] = SumOfUsers(k)

C10_Witness ==
    /\ stats_lock = "reporter"
    /\ global_stats.files_created = 1
    /\ \E u \in Users : pc[u] = "up_cp"
    /\ \E u \in Users : pc[u] = "dl_stats"

(* ------------------------------------------------------------------------ *)
(* Reporting and the shutdown signal                                        *)
(* ------------------------------------------------------------------------ *)

\* a step of print_stats: the block `with stats_lock:` of the periodic report
\* (holder "reporter") or of the final report (holder "main") is entered or
\* left
ReportStep ==
    /\ stats_lock' # stats_lock
    /\ \/ stats_lock \in {"reporter", "main"}
       \/ stats_lock' \in {"reporter", "main"}

\* C11: reporting is read-only.  Every step of a periodic or of the final
\* report leaves the global counters, the per-actor counters, the operation
\* registry, the bucket registry and the shutdown signal as they were.
C11_ReportingIsReadOnly ==
    [][ReportStep =>
          UNCHANGED <<global_stats, user_stats, active_operations,
                      created_buckets, running, shutdown_event>>]_vars

\* a periodic report is being printed while counters are non-zero, a record
\* is in the registry and a bucket is known
C11_Witness ==
    /\ rep_pc = "printing"
    /\ stats_lock = "reporter"
    /\ global_stats.operations > 0
    /\ active_operations # EmptyMap
    /\ created_buckets # {}

\* C12: the shutdown signal is monotonic.  Once the event is set and the
\* running flag is cleared no step clears the one or sets the other, and a
\* signal handler or supervisor shutdown that sets the signal again leaves
\* the signal exactly as it was.
C12_ShutdownSignalMonotonic ==
    [][/\ shutdown_event => shutdown_event'
       /\ ~running => ~running'
       /\ (shutdown_event /\ ~running /\ (SignalHandler \/ SupShutdown))
             => UNCHANGED <<running, shutdown_event>>]_vars

\* the handler had set the signal during the run and the supervisor's
\* shutdown path, which sets it again, has been taken to the end
C12_Witness ==
    /\ sup_pc = "finished"
    /\ shutdown_event
    /\ ~running
    /\ \E u \in Users : iterations[u] = 0 /\ user_stopped[u]

(* ------------------------------------------------------------------------ *)
(* The actors' shutdown                                                     *)
(* ------------------------------------------------------------------------ *)

\* what holds of an actor that has acknowledged: its loop was left on a
\* shutdown request, no record of it is in the registry and its private
\* cleanup has left no file below its directory
StoppedActorIsClean(u) ==
    /\ pc[u] = "done"
    /\ ~running \/ shutdown_event
    /\ get_active_operations_for_user(active_operations, u) = {}
    /\ FilesBelow(files, user_temp_dir(u)) = {}

\* C13: an actor's stopped acknowledgment is set once, by the step that
\* follows its drain wait and its private cleanup and never earlier, it is
\* never cleared, and an actor that has acknowledged takes no further step:
\* it registers nothing, runs no command and touches no file.
C13_StoppedOnceAndLast ==
    /\ [](\A u \in Users : user_stopped[u] => StoppedActorIsClean(u))
    /\ [][\A u \in Users :
            /\ user_stopped[u] => user_stopped'[u] /\ ~ActorStep(u)
            /\ (~user_stopped[u] /\ user_stopped'[u]) => pc[u] = "stopping"
         ]_vars

\* an actor that ran an operation has acknowledged while another actor is
\* still at work and holds a record
C13_Witness ==
    \E u, v \in Users :
        /\ user_stopped[u]
        /\ iterations[u] > 0
        /\ ~user_stopped[v]
        /\ get_active_operations_for_user(active_operations, v) # {}

(* ------------------------------------------------------------------------ *)
(* The supervisor's shutdown sequence                                       *)
(* ------------------------------------------------------------------------ *)

\* the steps of the finally block of ConcurrentTrafficGenerator.run in the
\* order of the code: the signal, the waits, the grace sleep, the final
\* report, the walk and the removal of the files, the removal of the empty
\* directories.  The cleanup is skipped when TEMP_DIR is gone, the removal
\* loop has nothing to do when nothing was collected.
SupOrder ==
    { <<"run", "wait">>, <<"wait", "grace">>, <<"grace", "report">>,
      <<"report", "reporting">>, <<"reporting", "walk">>,
      <<"reporting", "finished">>, <<"walk", "remove">>,
      <<"walk", "rmdirs">>, <<"remove", "rmdirs">>,
      <<"rmdirs", "finished">> }

\* the main thread is in its final cleanup
InFinalCleanup == sup_pc \in {"walk", "remove", "rmdirs"}

\* C16: the supervisor's shutdown takes its steps in the order signal,
\* wait on every actor's worker, grace sleep, final report, removal of the
\* unregistered files, removal of the empty directories; no position is
\* skipped or revisited, and the supervisor removes a file only in its
\* removal loop, with the signal set and the wait on the last actor done.
C16_ShutdownOrder ==
    /\ [](sup_pc # "run" => shutdown_event /\ ~running)
    /\ [](InFinalCleanup => sup_i = Len(UserOrder))
    /\ [][/\ sup_pc' # sup_pc => <<sup_pc, sup_pc'>> \in SupOrder
          /\ (sup_pc = "wait" /\ sup_pc' = "wait" /\ sup_i' # sup_i)
                => sup_i' = sup_i + 1
          /\ sup_pc' = "grace" => sup_i = Len(UserOrder)
          /\ files_removed' > files_removed => sup_pc = "remove"
          /\ (CleanupStep /\ files' # files) => sup_pc = "remove"
         ]_vars

\* the supervisor has been through the whole sequence and has removed a file
\* that an actor, whose wait timed out, had left behind
C16_Witness ==
    /\ sup_pc = "finished"
    /\ files_removed > 0
    /\ Len(completed_users) < Len(UserOrder)

\* C18: no failure of a single action ends an actor's loop.  An actor
\* leaves its loop only at the loop condition and only when shutdown has
\* been requested; from every error it comes back to the loop condition or
\* goes on within its operation.
C18_FailureKeepsActorRunning ==
    /\ [](\A u \in Users :
            pc[u] \in {"drain", "stopping", "done"}
               => ~running \/ shutdown_event)
    /\ [][\A u \in Users :
            (pc'[u] = "drain" /\ pc[u] # "drain")
               => pc[u] = "loop" /\ (~running \/ shutdown_event)
         ]_vars

\* an actor whose operation failed has started a later iteration while no
\* shutdown is requested
C18_Witness ==
    \E u \in Users :
        /\ user_stats[u].errors > 0
        /\ iterations[u] > 1
        /\ pc[u] \in {"up_start", "dl_start"}
        /\ running /\ ~shutdown_event

(* ------------------------------------------------------------------------ *)
(* Progress of the shutdown                                                 *)
(* ------------------------------------------------------------------------ *)

\* the steps the main thread takes by itself: the end of the run's duration
\* and the finally block.  The signal handler runs only when a signal arrives.
MainThreadStep ==
    \/ SupShutdown \/ SupWait \/ SupGrace
    \/ SupReportEnter \/ SupReportLeave
    \/ CleanupStep

\* the loop iterations all actors start in a run whose progress is checked
LiveOps == 1

\* a step of actor u within that budget
ActorStepLive(u) == ActorStep(u) /\ SumOver(iterations', Users) <= LiveOps

NextLive ==
    \/ \E u \in Users : ActorStepLive(u)
    \/ SupervisorStep
    \/ ReporterStep

\* every worker thread, the main thread and a reporter inside print_stats
\* are scheduled again and again, and a command that was started returns:
\* subprocess.run has timeout=120 and the drain wait has timeout=30
Fairness ==
    /\ \A u \in Users : WF_vars(ActorStepLive(u))
    /\ WF_vars(MainThreadStep)
    /\ WF_vars(RepLeave)

SpecLive == Init /\ [][NextLive]_vars /\ Fairness

\* C14: under fair scheduling, and with every external command returning,
\* once the shutdown signal is set every actor eventually sets its stopped
\* acknowledgment.
C14_EveryActorEventuallyStops ==
    shutdown_event ~> (\A u \in Users : user_stopped[u])

\* the signal is set while an actor is in the middle of an upload and holds
\* a record
C14_Witness ==
    /\ shutdown_event
    /\ \E u \in Users : pc[u] = "up_cp" /\ active_operations # EmptyMap

\* the wait on the actor whose turn it is ends without its worker's return
WaitFails ==
    /\ sup_pc = "wait"
    /\ pc[UserOrder[sup_i]] # "done"
    /\ <<sup_pc, sup_i>>' # <<sup_pc, sup_i>>

\* C17: a wait that times out or fails does not abort the shutdown.  The
\* supervisor goes on to the wait on the next actor, or after the last one
\* to the grace sleep, and under fair scheduling it then emits the final
\* report and runs the final cleanup to its end.
C17_TimeoutDoesNotAbortShutdown ==
    /\ [][WaitFails =>
            /\ completed_users' = completed_users
            /\ IF sup_i < Len(UserOrder)
                 THEN sup_pc' = "wait" /\ sup_i' = sup_i + 1
                 ELSE sup_pc' = "grace"
         ]_vars
    /\ (sup_pc = "wait" /\ WaitsTimedOut > 0) ~> (sup_pc = "finished")

\* the wait on the first actor timed out, the second actor's worker was
\* waited on and had returned, and the shutdown has run to its end
C17_Witness ==
    /\ sup_pc = "finished"
    /\ completed_users = <<UserOrder[2]>>

(* ------------------------------------------------------------------------ *)
(* The waits of the actor's loop (UserSimulator.run, lines 833-871), with   *)
(* time in tenths of a second                                               *)
(* ------------------------------------------------------------------------ *)

\* values of `interval`: 60 / ops_per_min times a factor in 0.5 .. 1.5, with
\* ops_per_min between OFF_PEAK_VOLUME_MIN = 100 and PEAK_VOLUME_MAX = 2000,
\* lies between 0.015 and 0.9 seconds
Intervals == {1, 9}

\* the 1.0 of min(1.0, interval / sleep_chunks) and the time.sleep(1) of the
\* wait after an error
SLEEP_CAP == 10
ERROR_SLEEP == 10

\* for _ in range(30)
ERROR_WAIT_CHUNKS == 30

\* sleep_chunks = max(1, int(interval))
sleep_chunks(i) == IF i \div 10 < 1 THEN 1 ELSE i \div 10

\* min(1.0, interval / sleep_chunks)
SleepIncrement(i) ==
    IF i \div sleep_chunks(i) < SLEEP_CAP
      THEN i \div sleep_chunks(i) ELSE SLEEP_CAP

\* what no step of a wait changes
waitFrame ==
    <<registryVars, bucketVars, statsVars, flagVars, fsVars, local_path,
      size_bytes, success, used_subfolders, last_disk_check, faults, supVars,
      cleanupVars, bucket_of, rep_pc, scenario, lockVars, diskVars, calcVars,
      listVars, capVars,
      drainVars>>

\* while running and not shutdown_event.is_set(): the loop is left, or an
\* iteration begins and `interval` is drawn
WaitLoopCheck(u) ==
    /\ pc[u] = "loop"
    /\ IF ShutdownRequested
         THEN /\ pc' = [pc EXCEPT ![u] = "drain"]
              /\ UNCHANGED <<iterations, interval>>
         ELSE /\ IterationsStarted < MaxOps
              /\ iterations' = [iterations EXCEPT ![u] = @ + 1]
              /\ \E i \in Intervals : interval' = [interval EXCEPT ![u] = i]
              /\ pc' = [pc EXCEPT ![u] = "action"]
    /\ UNCHANGED <<chunks_left, late_sleep, waitFrame>>

\* the operation of the iteration returns and the loop of sleeps begins with
\* range(sleep_chunks), or an exception is raised inside the iteration and
\* the handler's loop begins with range(30); the handler does not use
\* `interval`, which is kept only while it is live
WaitAction(u) ==
    /\ pc[u] = "action"
    /\ \/ /\ pc' = [pc EXCEPT ![u] = "wait"]
          /\ chunks_left' =
                [chunks_left EXCEPT ![u] = sleep_chunks(interval[u])]
          /\ UNCHANGED interval
       \/ /\ pc' = [pc EXCEPT ![u] = "err_wait"]
          /\ chunks_left' = [chunks_left EXCEPT ![u] = ERROR_WAIT_CHUNKS]
          /\ interval' = [interval EXCEPT ![u] = 0]
    /\ UNCHANGED <<iterations, late_sleep, waitFrame>>

\* a loop of sleeps that does not test the signal
WaitTest_ignoresSignal(u) ==
    /\ pc[u] \in {"wait", "err_wait"}
    /\ IF chunks_left[u] = 0
         THEN /\ pc' = [pc EXCEPT ![u] = "loop"]
              /\ interval' = [interval EXCEPT ![u] = 0]
              /\ chunks_left' = [chunks_left EXCEPT ![u] = 0]
         ELSE /\ pc' = [pc EXCEPT ![u] = IF pc[u] = "wait" THEN "sleeping"
                                         ELSE "err_sleeping"]
              /\ UNCHANGED <<interval, chunks_left>>
    /\ UNCHANGED <<iterations, late_sleep, waitFrame>>

\* the head of either loop of sleeps: the range is exhausted, or
\* `if shutdown_event.is_set(): break`, or the next time.sleep begins
WaitTest(u) ==
    /\ pc[u] \in {"wait", "err_wait"}
    /\ IF chunks_left[u] = 0 \/ shutdown_event
         THEN /\ pc' = [pc EXCEPT ![u] = "loop"]
              /\ interval' = [interval EXCEPT ![u] = 0]
              /\ chunks_left' = [chunks_left EXCEPT ![u] = 0]
         ELSE /\ pc' = [pc EXCEPT ![u] = IF pc[u] = "wait" THEN "sleeping"
                                         ELSE "err_sleeping"]
              /\ UNCHANGED <<interval, chunks_left>>
    /\ UNCHANGED <<iterations, late_sleep, waitFrame>>

\* time.sleep returns: an increment that ends with the signal set was slept,
\* at least in part, after the signal
WaitSleepDone(u) ==
    /\ pc[u] \in {"sleeping", "err_sleeping"}
    /\ pc' = [pc EXCEPT ![u] = IF pc[u] = "sleeping" THEN "wait"
                                ELSE "err_wait"]
    /\ chunks_left' = [chunks_left EXCEPT ![u] = @ - 1]
    /\ late_sleep' =
          [late_sleep EXCEPT
             ![u] = IF ~shutdown_event THEN @
                    ELSE IF pc[u] = "sleeping"
                      THEN @ + SleepIncrement(interval[u])
                      ELSE @ + ERROR_SLEEP]
    /\ UNCHANGED <<iterations, interval, waitFrame>>

\* ensure_bucket_exists, which precedes the loop
WaitEnsureBucket(u) ==
    \/ EbeEnter(u) \/ EbeProbe(u) \/ EbeCreate(u) \/ EbeMark(u)
    \/ (pc[u] = "ebe_err_u" /\ ErrorLeave(u))

WaitStep(u) ==
    \/ WaitEnsureBucket(u)
    \/ WaitLoopCheck(u) \/ WaitAction(u) \/ WaitTest(u) \/ WaitSleepDone(u)

NextWait ==
    \/ \E u \in Users : WaitStep(u)
    \/ SignalHandler \/ SupShutdown

SpecWait == Init /\ [][NextWait]_vars

\* C15: cancellation latency is bounded by one sleep increment.  What an
\* actor sleeps in increments that end after the signal was set is at most
\* one second in all; an actor that tests the signal in either wait and finds
\* it set goes to the loop condition, and an actor that finds shutdown
\* requested at the loop condition leaves the loop and starts no iteration.
C15_CancellationWithinOneIncrement ==
    /\ [](\A u \in Users : late_sleep[u] <= SLEEP_CAP)
    /\ [][\A u \in Users :
            /\ (pc[u] \in {"wait", "err_wait"} /\ shutdown_event
                   /\ pc'[u] # pc[u]) => pc'[u] = "loop"
            /\ (pc[u] = "loop" /\ ShutdownRequested /\ pc'[u] # pc[u])
                  => pc'[u] = "drain" /\ iterations'[u] = iterations[u]
         ]_vars

\* one actor has left its loop after an increment of its wait between
\* operations that ended with the signal set, another after an increment of
\* its wait after an error
C15_Witness ==
    \E u, v \in Users :
        /\ pc[u] = "drain"
        /\ late_sleep[u] > 0
        /\ late_sleep[u] < ERROR_SLEEP
        /\ pc[v] = "drain"
        /\ late_sleep[v] = ERROR_SLEEP

(* ------------------------------------------------------------------------ *)
(* Process exclusivity: check_if_running, acquire_lock, release_lock and    *)
(* __main__ (lines 126-178, 1161-1177), for several generator processes     *)
(* started on one machine.  A lock file is an entry of lock_inodes; the     *)
(* path LOCK_FILE names one of them or nothing.  flock locks the file, not  *)
(* the path.                                                                *)
(* ------------------------------------------------------------------------ *)

\* lock files created in a run of the model
MaxInodes == 2

\* processes that are killed before they release the lock
MaxKills == 1

\* what no step of the lock protocol changes
lockFrame ==
    <<actorVars, statsVars, running, shutdown_event, fsVars, supVars,
      cleanupVars, bucket_of, rep_pc, scenario, waitVars, diskVars, calcVars,
      listVars, capVars,
      drainVars>>

\* os.kill(pid, 0) succeeds: the process has not exited
Alive(p) == proc_pc[p] \notin {"exited_ok", "exited_fail", "killed"}

\* the process is between its acquire_lock and its release_lock
Holding(p) == proc_pc[p] \in {"construct", "run", "serving"}

Killed == {p \in Procs : proc_pc[p] = "killed"}

\* flock(LOCK_UN) or the close of the descriptor: the lock that p holds on
\* the file i, if any, is gone
Unlocked(inodes, i, p) ==
    IF i # 0 /\ inodes[i].holder = p
      THEN [inodes EXCEPT ![i].holder = None]
      ELSE inodes

\* check_if_running up to the read: LOCK_FILE does not exist, or its content
\* is not a number (the bare except returns False, None), or a pid is read
CheckRead(p) ==
    /\ proc_pc[p] = "check"
    /\ IF lock_path = 0 \/ lock_inodes[lock_path].content = ""
         THEN /\ proc_pc' = [proc_pc EXCEPT ![p] = "acq_open"]
              /\ UNCHANGED read_pid
         ELSE /\ proc_pc' = [proc_pc EXCEPT ![p] = "check_kill"]
              /\ read_pid' =
                    [read_pid EXCEPT ![p] = lock_inodes[lock_path].content]
    /\ UNCHANGED <<lock_path, lock_inodes, lock_fd, made, lockFrame>>

\* os.kill(pid, 0): the holder is alive and __main__ exits with status 1, or
\* the lock file is stale
CheckKill(p) ==
    /\ proc_pc[p] = "check_kill"
    /\ proc_pc' = [proc_pc EXCEPT
                     ![p] = IF Alive(read_pid[p]) THEN "exited_fail"
                            ELSE "check_unlink"]
    /\ UNCHANGED <<lock_path, lock_inodes, lock_fd, read_pid, made,
                   lockFrame>>

\* os.unlink(LOCK_FILE) of the stale file; when the path is gone the bare
\* except returns False, None as well
CheckUnlink(p) ==
    /\ proc_pc[p] = "check_unlink"
    /\ lock_path' = 0
    /\ proc_pc' = [proc_pc EXCEPT ![p] = "acq_open"]
    /\ UNCHANGED <<lock_inodes, lock_fd, read_pid, made, lockFrame>>

\* os.open(LOCK_FILE, os.O_CREAT | os.O_WRONLY | os.O_TRUNC): the file the
\* path names is truncated, or a new file is created under the path
AcquireOpen(p) ==
    /\ proc_pc[p] = "acq_open"
    /\ IF lock_path = 0
         THEN /\ Len(lock_inodes) < MaxInodes
              /\ lock_inodes' =
                    Append(lock_inodes, [content |-> "", holder |-> None])
              /\ lock_path' = Len(lock_inodes) + 1
         ELSE /\ lock_inodes' = [lock_inodes EXCEPT ![lock_path].content = ""]
              /\ UNCHANGED lock_path
    /\ lock_fd' = [lock_fd EXCEPT ![p] = lock_path']
    /\ proc_pc' = [proc_pc EXCEPT ![p] = "acq_flock"]
    /\ UNCHANGED <<read_pid, made, lockFrame>>

\* a process that goes on although flock failed
AcquireFlock_ignoresFailure(p) ==
    /\ proc_pc[p] = "acq_flock"
    /\ IF lock_inodes[lock_fd[p]].holder = None
         THEN lock_inodes' = [lock_inodes EXCEPT ![lock_fd[p]].holder = p]
         ELSE UNCHANGED lock_inodes
    /\ proc_pc' = [proc_pc EXCEPT ![p] = "acq_write"]
    /\ UNCHANGED <<lock_path, lock_fd, read_pid, made, lockFrame>>

\* fcntl.flock(lock_fd, fcntl.LOCK_EX | fcntl.LOCK_NB): the lock is taken, or
\* it is held through another descriptor and the except branch ends the
\* process with sys.exit(1)
AcquireFlock(p) ==
    /\ proc_pc[p] = "acq_flock"
    /\ IF lock_inodes[lock_fd[p]].holder = None
         THEN /\ lock_inodes' = [lock_inodes EXCEPT ![lock_fd[p]].holder = p]
              /\ proc_pc' = [proc_pc EXCEPT ![p] = "acq_write"]
              /\ UNCHANGED lock_fd
         ELSE /\ proc_pc' = [proc_pc EXCEPT ![p] = "exited_fail"]
              /\ lock_fd' = [lock_fd EXCEPT ![p] = 0]
              /\ UNCHANGED lock_inodes
    /\ UNCHANGED <<lock_path, read_pid, made, lockFrame>>

\* os.write(lock_fd, pid); os.fsync(lock_fd); return lock_fd
AcquireWrite(p) ==
    /\ proc_pc[p] = "acq_write"
    /\ lock_inodes' = [lock_inodes EXCEPT ![lock_fd[p]].content = p]
    /\ proc_pc' = [proc_pc EXCEPT ![p] = "construct"]
    /\ UNCHANGED <<lock_path, lock_fd, read_pid, made, lockFrame>>

\* generator = ConcurrentTrafficGenerator(): setup_environment makes TEMP_DIR
Construct(p) ==
    /\ proc_pc[p] = "construct"
    /\ made' = [made EXCEPT ![p] = @ \cup {"temp_root"}]
    /\ proc_pc' = [proc_pc EXCEPT ![p] = "run"]
    /\ UNCHANGED <<lock_path, lock_inodes, lock_fd, read_pid, lockFrame>>

\* generator.run() up to the main wait: every UserSimulator is constructed
\* (its directory, its counters) and submitted to the executor
RunStart(p) ==
    /\ proc_pc[p] = "run"
    /\ made' = [made EXCEPT
                  ![p] = @ \cup {"actors", "actor_dirs", "workers"}]
    /\ proc_pc' = [proc_pc EXCEPT ![p] = "serving"]
    /\ UNCHANGED <<lock_path, lock_inodes, lock_fd, read_pid, lockFrame>>

\* generator.run() returns and the finally block calls release_lock
RunEnd(p) ==
    /\ proc_pc[p] = "serving"
    /\ proc_pc' = [proc_pc EXCEPT ![p] = "rel_unlock"]
    /\ UNCHANGED <<lock_path, lock_inodes, lock_fd, read_pid, made,
                   lockFrame>>

\* fcntl.flock(lock_fd, fcntl.LOCK_UN); os.close(lock_fd)
ReleaseUnlock(p) ==
    /\ proc_pc[p] = "rel_unlock"
    /\ lock_inodes' = Unlocked(lock_inodes, lock_fd[p], p)
    /\ lock_fd' = [lock_fd EXCEPT ![p] = 0]
    /\ proc_pc' = [proc_pc EXCEPT ![p] = "rel_unlink"]
    /\ UNCHANGED <<lock_path, read_pid, made, lockFrame>>

\* if os.path.exists(LOCK_FILE): os.unlink(LOCK_FILE); the process ends
ReleaseUnlink(p) ==
    /\ proc_pc[p] = "rel_unlink"
    /\ lock_path' = 0
    /\ proc_pc' = [proc_pc EXCEPT ![p] = "exited_ok"]
    /\ UNCHANGED <<lock_inodes, lock_fd, read_pid, made, lockFrame>>

\* the process is killed while it holds the lock: the kernel closes its
\* descriptor, which drops the flock, and the lock file stays with its pid
Kill(p) ==
    /\ Holding(p)
    /\ Cardinality(Killed) < MaxKills
    /\ lock_inodes' = Unlocked(lock_inodes, lock_fd[p], p)
    /\ lock_fd' = [lock_fd EXCEPT ![p] = 0]
    /\ proc_pc' = [proc_pc EXCEPT ![p] = "killed"]
    /\ UNCHANGED <<lock_path, read_pid, made, lockFrame>>

ProcStep(p) ==
    \/ CheckRead(p) \/ CheckKill(p) \/ CheckUnlink(p)
    \/ AcquireOpen(p) \/ AcquireFlock(p) \/ AcquireWrite(p)
    \/ Construct(p) \/ RunStart(p) \/ RunEnd(p)
    \/ ReleaseUnlock(p) \/ ReleaseUnlink(p)
    \/ Kill(p)

NextLock == \E p \in Procs : ProcStep(p)

SpecLock == Init /\ [][NextLock]_vars

\* C19: at any time at most one generator process is between a successful
\* acquire_lock and its release_lock.
C19_AtMostOneHolder ==
    Cardinality({p \in Procs : Holding(p)}) <= 1

\* the process is at a step of __main__ that finds the lock held:
\* check_if_running reports a live holder, or acquire_lock's flock fails
FindsLockHeld(p) ==
    \/ proc_pc[p] = "check_kill" /\ Alive(read_pid[p])
    \/ /\ proc_pc[p] = "acq_flock"
       /\ lock_inodes[lock_fd[p]].holder # None

\* C20: a process that finds the exclusivity lock held exits at once with a
\* failure status, before the supervisor is constructed: it has created, and
\* creates, no temp root, no actor, no actor directory and no worker.
C20_LockHeldExitsBeforeConstruction ==
    /\ [](\A p \in Procs : proc_pc[p] = "exited_fail" => made[p] = {})
    /\ [][\A p \in Procs :
            (FindsLockHeld(p) /\ proc_pc'[p] # proc_pc[p])
               => proc_pc'[p] = "exited_fail" /\ made' = made
         ]_vars

\* one process has been turned away by check_if_running and another by
\* acquire_lock, while the holder has its actors at work
C20_Witness ==
    \E p, q, h \in Procs :
        /\ proc_pc[p] = "exited_fail" /\ read_pid[p] = h
        /\ proc_pc[q] = "exited_fail" /\ read_pid[q] = None
        /\ proc_pc[h] = "serving" /\ made[h] # {}

\* C21: while a process holds the exclusivity lock, having written its id,
\* the file it has locked contains that process's id; in particular no failed
\* acquisition attempt of another process changes that content.
C21_LockFileNamesHolder ==
    \A p \in Procs :
        Holding(p) => lock_inodes[lock_fd[p]].content = p

(* ------------------------------------------------------------------------ *)
(* The disk samples (check_disk_space, lines 307-330) and what the loop and *)
(* upload_operation make of them: the actors' steps of Spec, with the       *)
(* verdict of each sample kept in sample_verdict                            *)
(* ------------------------------------------------------------------------ *)

\* what no step of an actor's worker changes, sample_verdict apart
diskFrame ==
    <<supVars, cleanupVars, bucket_of, rep_pc, scenario, waitVars, lockVars,
      calcVars, listVars, capVars,
      drainVars, faults>>

\* while running and not shutdown_event.is_set(): an iteration begins.
\* get_current_activity_level calls check_disk_space, which may take a
\* sample, and returns 0 when the sample is at or below a threshold; run
\* compares the level with 1.0 to pick the band of ops_per_min and calls
\* upload_operation or download_operation
DiskLoopCheck(u) ==
    /\ pc[u] = "loop"
    /\ ~ShutdownRequested
    /\ IterationsStarted < MaxOps
    /\ iterations' = [iterations EXCEPT ![u] = @ + 1]
    /\ \E elapsed \in ElapsedChoices(u, iterations'[u]) :
         IF elapsed
           THEN /\ StatsLockFree
                /\ user_stats' = [user_stats EXCEPT ![u] = DiskChecked(@)]
                /\ last_disk_check' =
                      [last_disk_check EXCEPT ![u] = iterations'[u]]
                /\ \E verdict \in DiskVerdicts :
                     sample_verdict' =
                        [sample_verdict EXCEPT ![u] = verdict]
           ELSE UNCHANGED <<last_disk_check, user_stats, sample_verdict>>
    /\ \E op \in {"up_start", "dl_start"} : pc' = [pc EXCEPT ![u] = op]
    /\ UNCHANGED <<registryVars, bucketVars, flagVars, fsVars, local_path,
                   size_bytes, success, used_subfolders, stats_lock,
                   global_stats, diskFrame>>

\* upload_operation up to generate_file's first statement, as UpBegin
DiskUpBegin(u) ==
    /\ pc[u] = "up_start"
    /\ \E elapsed \in ElapsedChoices(u, iterations[u]),
          verdict \in DiskVerdicts :
         LET s1 == IF elapsed THEN DiskChecked(user_stats[u])
                              ELSE user_stats[u] IN
         /\ elapsed => StatsLockFree
         /\ last_disk_check' =
               IF elapsed
                 THEN [last_disk_check EXCEPT ![u] = iterations[u]]
                 ELSE last_disk_check
         /\ sample_verdict' =
               IF elapsed
                 THEN [sample_verdict EXCEPT ![u] = verdict]
                 ELSE sample_verdict
         /\ IF DiskOk(elapsed, verdict)
              THEN \E size \in Sizes, sub \in Subfolders, n \in ArtifactNames :
                     /\ sub \notin used_subfolders[u] => StatsLockFree
                     /\ user_stats' = [user_stats EXCEPT ![u] =
                                         IF sub \notin used_subfolders[u]
                                           THEN SubfolderUsed(s1) ELSE s1]
                     /\ used_subfolders' =
                           [used_subfolders EXCEPT ![u] = @ \cup {sub}]
                     /\ size_bytes' = [size_bytes EXCEPT ![u] = size]
                     /\ local_path' = [local_path EXCEPT ![u] = <<u, n>>]
                     /\ active_operations' =
                           register_operation(active_operations, <<u, n>>,
                                              "generate", u)
                     /\ pc' = [pc EXCEPT ![u] = "gen_write"]
                     /\ UNCHANGED success
              ELSE /\ user_stats' = [user_stats EXCEPT ![u] = s1]
                   /\ Return(u)
                   /\ UNCHANGED <<used_subfolders, registryVars>>
    /\ UNCHANGED <<stats_lock, global_stats, bucketVars, flagVars, fsVars,
                   iterations, diskFrame>>

DiskStep(u) ==
    \/ EbeEnter(u) \/ EbeProbe(u) \/ EbeCreate(u) \/ EbeMark(u)
    \/ ErrorEnter(u) \/ ErrorLeave(u)
    \/ DiskLoopCheck(u)
    \/ DiskUpBegin(u) \/ GenWrite(u) \/ GenStatsEnter(u) \/ GenStatsLeave(u)
    \/ GenUnregister(u)
    \/ UpRegister(u) \/ UpCopy(u) \/ UpStatsLeave(u)
    \/ UpUnregister(u) \/ UpRemove(u)
    \/ DlList(u) \/ DlCopy(u) \/ DlStatsEnter(u) \/ DlStatsLeave(u)
    \/ DlUnregister(u)

NextDisk == \E u \in Users : DiskStep(u)

SpecDisk == Init /\ [][NextDisk]_vars

\* the positions inside upload_operation past its disk check: the artifact
\* is selected, its path registered, the file synthesized and uploaded
UploadBody ==
    UploadInProgress \cup {"gen_unreg_fail", "up_generr", "up_generr_u",
                           "up_remove"}

\* the positions inside download_operation past the call of the listing
DownloadBody ==
    {"dl_cp", "dl_stats", "dl_stats_u", "dl_err", "dl_err_u", "dl_exc_u",
     "dl_rm", "dl_unreg"}

\* C22: between disk samples the previous verdict is reused.  While the
\* last disk sample of an actor found the free space at or below the stop
\* threshold, no upload of that actor gets past its disk check: no artifact
\* is selected, no path registered and no file synthesized.
C22_ThrottledUploadAborts ==
    \A u \in Users :
        sample_verdict[u] \in {"stop", "emergency"} => pc[u] \notin UploadBody

\* C23: in a loop iteration whose disk check reports the emergency halt the
\* actor's activity is zero: no upload gets past its beginning and no
\* download issues its listing in that iteration.
C23_EmergencyHaltsIteration ==
    \A u \in Users :
        (sample_verdict[u] = "emergency"
           /\ last_disk_check[u] = iterations[u])
          => pc[u] \notin UploadBody \cup DownloadBody

(* ------------------------------------------------------------------------ *)
(* The activity level and the volume band of one loop iteration             *)
(* (get_current_activity_level, lines 390-420; run, lines 835-846), over    *)
(* every hour of the day.  Hours and offsets are counted in half hours, as  *)
(* an offset may be fractional (5.5); levels and multipliers in hundredths; *)
(* intervals in milliseconds.                                               *)
(* ------------------------------------------------------------------------ *)

Hours == 0 .. 23
Offsets == {-10, 0, 11}
PeakWindows == {<<9, 17>>, <<22, 6>>, <<0, 8>>, <<2, 6>>}
Multipliers == {170, 200, 350}

\* user_hour = (current_hour + timezone_offset) % 24, in half hours
user_hour(hour, offset) == (2 * hour + offset) % 48

\* lines 398-401: both ends of the window are inside
PeakTest(h, window) ==
    LET peak_start == 2 * window[1]
        peak_end   == 2 * window[2] IN
    IF peak_start > peak_end
      THEN h >= peak_start \/ h <= peak_end
      ELSE peak_start <= h /\ h <= peak_end

\* lines 406-420
ActivityLevel(base_activity, ok, forced, peak) ==
    IF ~ok THEN 0
    ELSE IF forced THEN base_activity * 4
    ELSE IF peak THEN (base_activity * 5) \div 2
    ELSE base_activity \div 2

\* line 839: if activity_level > 1.0
VolumeBand(level) == IF level > 100 THEN "peak" ELSE "off_peak"

\* the ends of the band uniform() draws ops_per_min from
BandEnds(band) ==
    IF band = "peak" THEN {PEAK_VOLUME_MIN, PEAK_VOLUME_MAX}
                     ELSE {OFF_PEAK_VOLUME_MIN, OFF_PEAK_VOLUME_MAX}

calcFrame ==
    <<pc, registryVars, bucketVars, statsVars, flagVars, fsVars, localVars,
      user_stopped, faults, supVars, cleanupVars, bucket_of, rep_pc,
      scenario, waitVars, lockVars, diskVars, listVars, capVars,
      drainVars>>

activityFrame == <<calcFrame, weightVars, genVars>>

\* an actor's profile, the hour of the day and the state of the disk
InitActivity ==
    /\ InitProgram
    /\ calc_pc = "level"
    /\ current_hour \in Hours
    /\ timezone_offset \in Offsets
    /\ peak_hours \in PeakWindows
    /\ activity_multiplier \in Multipliers
    /\ forced_peak \in BOOLEAN
    /\ disk_ok \in BOOLEAN
    /\ is_peak = FALSE
    /\ activity_level = 0
    /\ volume_band = None
    /\ ops_per_min = 0
    /\ base_interval = 0
    /\ WeightsIdle
    /\ GenerateIdle

\* activity_level = self.get_current_activity_level()
GetCurrentActivityLevel ==
    /\ calc_pc = "level"
    /\ is_peak' = PeakTest(user_hour(current_hour, timezone_offset), peak_hours)
    /\ activity_level' =
          ActivityLevel(activity_multiplier, disk_ok, forced_peak, is_peak')
    /\ calc_pc' = "band"
    /\ UNCHANGED <<current_hour, timezone_offset, peak_hours,
                   activity_multiplier, forced_peak, disk_ok, volume_band,
                   ops_per_min, base_interval, activityFrame>>

\* lines 839-846: the band, ops_per_min and base_interval
OpsPerMinute ==
    /\ calc_pc = "band"
    /\ volume_band' = VolumeBand(activity_level)
    /\ ops_per_min' \in BandEnds(volume_band')
    /\ base_interval' = 60000 \div ops_per_min'
    /\ calc_pc' = "done"
    /\ UNCHANGED <<current_hour, timezone_offset, peak_hours,
                   activity_multiplier, forced_peak, disk_ok, is_peak,
                   activity_level, activityFrame>>

NextActivity == GetCurrentActivityLevel \/ OpsPerMinute

SpecActivity == InitActivity /\ [][NextActivity]_vars

\* the window [start, end) of the actor's local hours, wrapping past
\* midnight when start > end
InHalfOpenWindow(h, window) ==
    LET start == 2 * window[1]
        end   == 2 * window[2] IN
    IF start > end THEN h >= start \/ h < end
                   ELSE start <= h /\ h < end

\* C24: for every wall-clock hour, timezone offset and peak window the
\* local hour (wall-clock hour + offset) mod 24 is classified peak iff it
\* lies in the half-open window [start, end), wrapping past midnight when
\* start > end.
C24_PeakIsHalfOpenWindow ==
    calc_pc \in {"band", "done"} =>
        (is_peak <=> InHalfOpenWindow(user_hour(current_hour, timezone_offset),
                                      peak_hours))

\* C25: in each loop iteration the operations-per-minute target is drawn
\* from the peak band iff the actor's local hour is inside its peak window,
\* and from the off-peak band otherwise, whatever the actor and its
\* multiplier; the base interval is 60 / opsPerMinute.
C25_BandFollowsPeakWindow ==
    calc_pc = "done" =>
        /\ volume_band = "peak" <=> is_peak
        /\ ops_per_min \in BandEnds(IF is_peak THEN "peak" ELSE "off_peak")
        /\ base_interval * ops_per_min = 60000

(* ------------------------------------------------------------------------ *)
(* The size-range weights of select_file_type_and_size (lines 422-447),     *)
(* over repeated selections.  Weights and the bias are in hundredths.       *)
(* ------------------------------------------------------------------------ *)

MaxSelections == 3
FileTypes == {"images", "code", "archives"}
WeightLists ==
    {<<80, 15, 5>>, <<85, 12, 3>>, <<70, 25, 5>>, <<75, 20, 5>>, <<80, 20>>}
Biases == {0, 80}

\* size_weights[0] *= (1 + HIGH_VOLUME_CONFIG['small_file_bias'])
BoostFirst(weights, bias) ==
    [weights EXCEPT ![1] = (@ * (100 + bias)) \div 100]

weightFrame == <<calcFrame, activityVars, genVars>>

\* the weight lists of the file types and the configured bias
InitWeights ==
    /\ InitProgram
    /\ ActivityIdle
    /\ GenerateIdle
    /\ calc_pc = "select"
    /\ weights_table \in [FileTypes -> WeightLists]
    /\ small_file_bias \in Biases
    /\ file_type = None
    /\ size_weights = << >>
    /\ selections = 0

\* the selection with the boost applied to the list of the table itself
SelectFileTypeAndSize_inPlace ==
    /\ calc_pc = "select"
    /\ selections < MaxSelections
    /\ selections' = selections + 1
    /\ \E t \in FileTypes :
         /\ file_type' = t
         /\ size_weights' =
               IF small_file_bias > 0
                 THEN BoostFirst(weights_table[t], small_file_bias)
                 ELSE weights_table[t]
         /\ weights_table' = [weights_table EXCEPT ![t] = size_weights']
    /\ UNCHANGED <<calc_pc, small_file_bias, weightFrame>>

\* select_file_type_and_size: size_weights is the list of the table, or,
\* with a bias, a copy of it (list(size_weights)) with its first weight
\* boosted
SelectFileTypeAndSize ==
    /\ calc_pc = "select"
    /\ selections < MaxSelections
    /\ selections' = selections + 1
    /\ \E t \in FileTypes :
         /\ file_type' = t
         /\ size_weights' =
               IF small_file_bias > 0
                 THEN BoostFirst(weights_table[t], small_file_bias)
                 ELSE weights_table[t]
    /\ UNCHANGED <<calc_pc, weights_table, small_file_bias, weightFrame>>

NextWeights == SelectFileTypeAndSize

SpecWeights == InitWeights /\ [][NextWeights]_vars

\* the weights are those of the list base with the first one multiplied by
\* (1 + bias) and the others as they are
BoostedOnce(weights, base, bias) ==
    /\ Len(weights) = Len(base)
    /\ weights[1] * 100 = base[1] * (100 + bias)
    /\ \A i \in 2 .. Len(base) : weights[i] = base[i]

\* C26: on every size selection, however many preceded it, the effective
\* weights are the configured base weights with only the first one
\* multiplied by (1 + small-file bias); with bias 0.8 and base weights
\* [0.8, 0.2] they are [1.44, 0.2].  The configured weight table is never
\* modified, so the boost does not compound.
C26_BoostDoesNotCompound ==
    /\ [](selections > 0 =>
            /\ BoostedOnce(size_weights, weights_table[file_type],
                           small_file_bias)
            /\ (small_file_bias = 80
                  /\ weights_table[file_type] = <<80, 20>>)
                 => size_weights = <<144, 20>>)
    /\ [][weights_table' = weights_table]_vars

C26_Witness ==
    /\ selections = MaxSelections
    /\ small_file_bias = 80
    /\ weights_table[file_type] = <<80, 20>>
    /\ size_weights = <<144, 20>>

(* ------------------------------------------------------------------------ *)
(* The content of a generated file (generate_file, lines 454-498;           *)
(* generate_code_content, lines 500-520; generate_document_content, lines   *)
(* 522-542).  A text is the sequence of the byte widths of its characters:  *)
(* the identifiers, descriptions, templates and words of the program are    *)
(* ASCII, one byte each.  Sizes, the header and the chunk are scaled down.  *)
(* ------------------------------------------------------------------------ *)

MaxSize == 9
MaxChunk == 4
GenTypes == {"code", "documents", "images"}
TextTypes == {"code", "documents"}

\* the text content starts with: two comment lines, or two document lines
Header(type) == IF type = "code" THEN <<1, 1, 1>> ELSE <<1, 1>>

\* what one turn of the loop appends: a formatted template, or a sentence,
\* at times followed by an empty line
Pieces(type) ==
    IF type = "code" THEN {<<1, 1>>, <<1, 1, 1, 1>>}
                     ELSE {<<1>>, <<1, 1, 1>>}

Min(a, b) == IF a < b THEN a ELSE b

RECURSIVE EncodedLen(_)
\* len(content.encode())
EncodedLen(text) ==
    IF text = << >> THEN 0 ELSE Head(text) + EncodedLen(Tail(text))

\* the slice taken whole
Truncate_whole(text, n) == text

\* content[:size_bytes], a slice of characters
Truncate(text, n) == SubSeq(text, 1, Min(n, Len(text)))

generateFrame == <<calcFrame, activityVars, weightVars>>

\* a file type and a requested size
InitGenerate ==
    /\ InitProgram
    /\ ActivityIdle
    /\ WeightsIdle
    /\ calc_pc = "gen_start"
    /\ req_type \in GenTypes
    /\ req_size \in 0 .. MaxSize
    /\ content = << >>
    /\ chunk_size = 0
    /\ remaining = 0
    /\ written = 0

\* lines 462-474: the content starts with its header, or the file is
\* opened for binary writing and the chunk size is fixed
GenerateStart ==
    /\ calc_pc = "gen_start"
    /\ IF req_type \in TextTypes
         THEN /\ content' = Header(req_type)
              /\ calc_pc' = "gen_fill"
              /\ UNCHANGED <<chunk_size, remaining>>
         ELSE /\ chunk_size' = Min(MaxChunk, req_size)
              /\ remaining' = req_size
              /\ calc_pc' = "gen_chunk"
              /\ UNCHANGED content
    /\ UNCHANGED <<req_type, req_size, written, generateFrame>>

\* while len(content.encode()) < size_bytes: content += ...
ContentAppend ==
    /\ calc_pc = "gen_fill"
    /\ EncodedLen(content) < req_size
    /\ \E piece \in Pieces(req_type) : content' = content \o piece
    /\ UNCHANGED <<calc_pc, req_type, req_size, chunk_size, remaining,
                   written, generateFrame>>

\* return content[:size_bytes], and f.write(content)
ContentWrite ==
    /\ calc_pc = "gen_fill"
    /\ EncodedLen(content) >= req_size
    /\ written' = EncodedLen(Truncate(content, req_size))
    /\ calc_pc' = "gen_done"
    /\ UNCHANGED <<req_type, req_size, content, chunk_size, remaining,
                   generateFrame>>

\* while remaining > 0: one chunk of os.urandom is written
ChunkWrite ==
    /\ calc_pc = "gen_chunk"
    /\ remaining > 0
    /\ LET chunk == Min(chunk_size, remaining) IN
         /\ written' = written + chunk
         /\ remaining' = remaining - chunk
    /\ UNCHANGED <<calc_pc, req_type, req_size, content, chunk_size,
                   generateFrame>>

\* the loop ends and the file is closed
ChunkDone ==
    /\ calc_pc = "gen_chunk"
    /\ remaining <= 0
    /\ calc_pc' = "gen_done"
    /\ UNCHANGED <<req_type, req_size, content, chunk_size, remaining,
                   written, generateFrame>>

\* except Exception: an open or a write fails and generate_file returns None
GenerateFail ==
    /\ calc_pc \in {"gen_fill", "gen_chunk"}
    /\ calc_pc' = "gen_failed"
    /\ UNCHANGED <<req_type, req_size, content, chunk_size, remaining,
                   written, generateFrame>>

NextGenerate ==
    \/ GenerateStart
    \/ ContentAppend
    \/ ContentWrite
    \/ ChunkWrite
    \/ ChunkDone
    \/ GenerateFail

\* the thread that calls generate_file keeps running
SpecGenerate ==
    InitGenerate /\ [][NextGenerate]_vars /\ WF_vars(NextGenerate)

\* C27: for every file type and every requested size >= 0, also 0 and sizes
\* below the length of the text header, a successful generate_file leaves a
\* file whose byte length is the requested size; the chunked write loop of
\* the binary types has then written exactly that many bytes, and every
\* call comes to its end.
C27_GeneratedSizeExact ==
    /\ [](calc_pc = "gen_done" => written = req_size)
    /\ [](calc_pc = "gen_chunk" => written + remaining = req_size)
    /\ <>(calc_pc \in {"gen_done", "gen_failed"})

C27_Witness ==
    /\ calc_pc = "gen_done"
    /\ req_type \in TextTypes
    /\ 0 < req_size
    /\ req_size < Len(Header(req_type))
    /\ written = req_size

(* ------------------------------------------------------------------------ *)
(* The listing of download_operation (lines 636-677, 708-713): the actors'  *)
(* steps of Spec, with the result of each listing kept in listing.  A line  *)
(* of output is its number of whitespace-separated fields.                  *)
(* ------------------------------------------------------------------------ *)

\* outputs of `obsctl ls`: nothing; a header only; a header and an object
\* line; with an empty line between; with a line of three fields; with
\* empty lines around
RawOutputs ==
    {<< >>, <<4>>, <<4, 4>>, <<4, 0, 4>>, <<4, 3>>, <<0, 4, 4, 0>>}

RECURSIVE LStrip(_)
\* the empty lines at the start removed
LStrip(lines) ==
    IF lines # << >> /\ Head(lines) = 0 THEN LStrip(Tail(lines)) ELSE lines

RECURSIVE RStrip(_)
\* the empty lines at the end removed
RStrip(lines) ==
    IF lines # << >> /\ lines[Len(lines)] = 0
      THEN RStrip(SubSeq(lines, 1, Len(lines) - 1))
      ELSE lines

\* result.stdout.strip().split('\n'): the split of an empty string is one
\* empty line
StripSplit(out) ==
    LET stripped == RStrip(LStrip(out)) IN
    IF stripped = << >> THEN <<0>> ELSE stripped

\* the indexes random.choice(lines[1:]) chooses among
Choices(lines) == 2 .. Len(lines)

\* lines 660-670: the listing is too short, or the chosen line is blank or
\* has fewer than four fields
Rejected(l) ==
    \/ Len(l.lines) < 2
    \/ l.lines[l.file_line] = 0
    \/ l.lines[l.file_line] < 4

listFrame ==
    <<supVars, cleanupVars, bucket_of, rep_pc, scenario, waitVars, lockVars,
      diskVars, calcVars, capVars,
      drainVars>>

\* a listing that registers the path whatever the output is
DownloadList_registers(u) ==
    /\ pc[u] = "dl_start"
    /\ \E out \in RawOutputs, n \in DownloadNames :
         LET lines == StripSplit(out) IN
         /\ \E i \in (IF Len(lines) < 2 THEN {0} ELSE Choices(lines)) :
              listing' = [listing EXCEPT ![u] =
                 [returncode |-> 0, lines |-> lines, file_line |-> i]]
         /\ local_path' = [local_path EXCEPT ![u] = <<u, n>>]
         /\ active_operations' =
               register_operation(active_operations, <<u, n>>, "download", u)
         /\ pc' = [pc EXCEPT ![u] = "dl_cp"]
    /\ UNCHANGED <<size_bytes, success, statsVars, faults,
                   bucketVars, flagVars, fsVars, used_subfolders, iterations,
                   last_disk_check, listFrame>>

\* download_operation up to the call of the copy: subprocess.run of the
\* listing returns with a status and an output, or raises (a timeout
\* after 30 seconds, or another exception), which the outer handler counts
DownloadList(u) ==
    /\ pc[u] = "dl_start"
    /\ \/ \* result.returncode != 0: return False
          /\ listing' = [listing EXCEPT ![u] =
                [returncode |-> 1, lines |-> << >>, file_line |-> 0]]
          /\ Return(u)
          /\ UNCHANGED <<registryVars, statsVars, faults>>
       \/ \E out \in RawOutputs :
            LET lines == StripSplit(out) IN
            \E i \in (IF Len(lines) < 2 THEN {0} ELSE Choices(lines)) :
              LET l == [returncode |-> 0, lines |-> lines, file_line |-> i] IN
              /\ listing' = [listing EXCEPT ![u] = l]
              /\ IF Rejected(l)
                   THEN /\ Return(u)
                        /\ UNCHANGED <<registryVars, statsVars, faults>>
                   ELSE \E n \in DownloadNames :
                          /\ local_path' =
                                [local_path EXCEPT ![u] = <<u, n>>]
                          /\ active_operations' =
                                register_operation(active_operations,
                                                   <<u, n>>, "download", u)
                          /\ pc' = [pc EXCEPT ![u] = "dl_cp"]
                          /\ UNCHANGED <<size_bytes, success, statsVars,
                                         faults>>
       \/ \* except Exception
          /\ listing' = [listing EXCEPT ![u] = NoListing]
          /\ pc' = [pc EXCEPT ![u] = "dl_exc_u"]
          /\ StatsEnter(u, ErrorGlobal(global_stats))
          /\ Fault(FALSE)
          /\ UNCHANGED <<registryVars, local_path, size_bytes, success>>
    /\ UNCHANGED <<bucketVars, flagVars, fsVars, used_subfolders,
                   iterations, last_disk_check, listFrame>>

ListingStep(u) ==
    \/ EbeEnter(u) \/ EbeProbe(u) \/ EbeCreate(u) \/ EbeMark(u)
    \/ ErrorEnter(u) \/ ErrorLeave(u)
    \/ LoopCheck(u)
    \/ UpBegin(u) \/ GenWrite(u) \/ GenStatsEnter(u) \/ GenStatsLeave(u)
    \/ GenUnregister(u)
    \/ UpRegister(u) \/ UpCopy(u) \/ UpStatsLeave(u)
    \/ UpUnregister(u) \/ UpRemove(u)
    \/ DownloadList(u) \/ DlCopy(u) \/ DlStatsEnter(u) \/ DlStatsLeave(u)
    \/ DlUnregister(u)

NextListing == \E u \in Users : ListingStep(u)

SpecListing == Init /\ [][NextListing]_vars

\* the positions at which an error is being counted: the global counter is
\* incremented on entering them or on leaving them for the next, the
\* actor's on leaving the second
ErrorCounting == {s.at : s \in ErrorEntries} \cup {s.mid : s \in ErrorSites}

\* C28: every upload or download action in which an invocation of the
\* storage client (the listing or a copy) exits non-zero or times out, or
\* in which an exception is raised, increments the global and the actor's
\* error counter and returns failure: the step of the failed invocation
\* leads to the counting of an error.
C28_FailedInvocationCounted ==
    [][\A u \in Users :
         /\ (pc[u] = "dl_start" /\ pc'[u] # "dl_start"
               /\ listing'[u].returncode # 0)
              => /\ pc'[u] \in ErrorCounting
                 /\ global_stats'.errors = global_stats.errors + 1
         /\ (pc[u] \in {"up_cp", "dl_cp"} /\ pc'[u] # pc[u]
               /\ ~success'[u])
              => pc'[u] \in ErrorCounting]_vars

\* the four counters of a record of counters
Transfers(c) == <<c.operations, c.uploads, c.downloads, c.bytes_transferred>>

\* C29: when the listing is empty or malformed (fewer than two lines, a
\* blank chosen line, or a chosen line with fewer than four fields), the
\* download returns failure as a no-op: it registers no path, invokes no
\* copy, creates no local file and leaves the operations, uploads,
\* downloads and bytes counters as they are.
C29_RejectedListingIsNoOp ==
    [][\A u \in Users :
         (pc[u] = "dl_start" /\ pc'[u] # "dl_start"
            /\ listing'[u].returncode = 0 /\ Rejected(listing'[u]))
           => /\ pc'[u] = "loop"
              /\ local_path'[u] = NoPath
              /\ active_operations' = active_operations
              /\ files' = files
              /\ Transfers(global_stats') = Transfers(global_stats)
              /\ Transfers(user_stats'[u]) = Transfers(user_stats[u])]_vars

C29_Witness ==
    \E u \in Users :
        /\ pc[u] = "loop"
        /\ listing[u].returncode = 0
        /\ listing[u].file_line > 0
        /\ listing[u].lines[listing[u].file_line] = 3
        /\ user_stats[u].downloads > 0

\* C30: every download that returns success has incremented downloads and
\* operations by one and bytes transferred by the size of the fetched
\* file, in the global and in the actor's counters, and its local copy no
\* longer exists when it returns.  A download reaches its last statement
\* past the counters and the removal ("dl_rm") or around them
\* ("dl_unreg"): the latter only with a result of failure.
C30_SuccessfulDownloadCounted ==
    \A u \in Users : pc[u] = "dl_unreg" => ~success[u]

(* ------------------------------------------------------------------------ *)
(* The end of an upload, the subfolder cap and the final cleanup            *)
(* ------------------------------------------------------------------------ *)

\* the counters c2 are the counters c1 after one transfer of size bytes
\* counted as an upload
OneUploadMore(c1, c2, size) ==
    /\ c2.uploads = c1.uploads + 1
    /\ c2.operations = c1.operations + 1
    /\ c2.bytes_transferred = c1.bytes_transferred + size
    /\ c2.downloads = c1.downloads

\* C31: when an upload that synthesized an artifact returns, whether its
\* copy succeeded, failed or timed out, the artifact's path is not
\* registered and the local file does not exist; a successful upload has
\* incremented uploads and operations by one and bytes transferred by the
\* artifact's size, in the global and in the actor's counters, and a failed
\* one has changed none of them.
C31_UploadLeavesNothingBehind ==
    [][\A u \in Users :
         /\ (pc[u] = "up_remove" /\ pc'[u] = "loop")
              => /\ ~Exists(files', local_path[u])
                 /\ ~is_file_in_use(active_operations', local_path[u])
         /\ (pc[u] = "up_cp" /\ pc'[u] # "up_cp")
              => IF success'[u]
                   THEN OneUploadMore(global_stats, global_stats',
                                      size_bytes[u])
                   ELSE Transfers(global_stats') = Transfers(global_stats)
         /\ (pc[u] = "up_stats_u" /\ pc'[u] # "up_stats_u")
              => OneUploadMore(user_stats[u], user_stats'[u], size_bytes[u])
         /\ (pc[u] \in {"up_err_u", "up_unreg", "up_remove"}
               /\ pc'[u] # pc[u])
              => /\ Transfers(user_stats'[u]) = Transfers(user_stats[u])
                 /\ Transfers(global_stats') = Transfers(global_stats)
                 /\ pc[u] # "up_remove" => success'[u] = success[u]]_vars

C31_Witness ==
    \E u \in Users :
        /\ pc[u] = "loop"
        /\ user_stats[u].files_created > 0
        /\ user_stats[u].uploads = 0
        /\ user_stats[u].errors > 0
        /\ files = {}
        /\ active_operations = EmptyMap
        /\ ~shutdown_event

(* ------------------------------------------------------------------------ *)
(* The uploads of one actor over a long run: the target of                  *)
(* upload_operation (lines 558-567), generate_subfolder_path with its       *)
(* recursion (lines 332-388) and the counts of lines 598-611.  The actor    *)
(* runs alone; the cap, the target and the interpreter's recursion limit    *)
(* are scaled down, and the templates of a container are the set of paths   *)
(* they can produce.                                                        *)
(* ------------------------------------------------------------------------ *)

\* HIGH_VOLUME_CONFIG['files_per_subfolder'] (200)
MaxFilesPerSubfolder == 2
\* HIGH_VOLUME_CONFIG['target_files_per_bucket'] (5000)
MaxTargetFiles == 5
\* sys.getrecursionlimit() (1000)
MaxDepth == 3
\* disk samples taken over the run
MaxDiskChecks == 1
\* for _ in range(3)
GSP_ATTEMPTS == 3

\* the actor whose uploads are counted
Uploader == UserOrder[1]

\* SUBFOLDER_TEMPLATES.get(self.bucket, ['files']): one path for a container
\* without templates; templates whose paths can all be filled before the
\* target is reached; templates with more paths than that
TemplateSets == {{"a"}, {"a", "b"}, {"a", "b", "c"}}

\* self.files_per_subfolder.get(path, 0)
FilesIn_subfolder(path) ==
    IF path \in DOMAIN files_per_subfolder THEN files_per_subfolder[path]
                                           ELSE 0

capFrame ==
    <<pc, registryVars, bucketVars, flagVars, fsVars, local_path, size_bytes,
      success, iterations, last_disk_check, supVars, cleanupVars, bucket_of,
      rep_pc, scenario, waitVars, lockVars, diskVars, calcVars, listVars,
      drainVars>>

\* UserSimulator.__init__, lines 234-239
UploaderInit ==
    /\ up_pc = "init"
    /\ up_pc' = "loop"
    /\ subfolder_templates' \in TemplateSets
    /\ UNCHANGED <<total_files_created, files_per_subfolder, gsp_stack,
                   gsp_ret, subfolder_path, statsVars, used_subfolders,
                   faults, capFrame>>

\* run picks upload_operation; or its handler has caught what an operation
\* raised and the loop goes on
RunUpload ==
    /\ up_pc \in {"loop", "raised"}
    /\ up_pc' = "up_start"
    /\ UNCHANGED <<total_files_created, files_per_subfolder, gsp_stack,
                   gsp_ret, subfolder_path, subfolder_templates, statsVars,
                   used_subfolders, faults, capFrame>>

\* an upload_operation without the test of the target
UploadStart_noTarget ==
    /\ up_pc = "up_start"
    /\ \E elapsed \in BOOLEAN, verdict \in DiskVerdicts :
         /\ elapsed =>
              user_stats[Uploader].disk_space_checks < MaxDiskChecks
         /\ user_stats' =
              [user_stats EXCEPT ![Uploader] =
                 IF elapsed THEN DiskChecked(@) ELSE @]
         /\ up_pc' = IF DiskOk(elapsed, verdict) THEN "gsp_call" ELSE "loop"
    /\ UNCHANGED <<total_files_created, files_per_subfolder, gsp_stack,
                   gsp_ret, subfolder_path, subfolder_templates, stats_lock,
                   global_stats, used_subfolders, faults, capFrame>>

\* upload_operation, lines 561-573: with the target reached it returns True
\* at once; with too little disk space it returns False; otherwise
\* (select_file_type_and_size has no effect on the actor) it calls
\* generate_subfolder_path
UploadStart ==
    /\ up_pc = "up_start"
    /\ IF total_files_created >= MaxTargetFiles
         THEN /\ up_pc' = "loop"
              /\ UNCHANGED user_stats
         ELSE \E elapsed \in BOOLEAN, verdict \in DiskVerdicts :
                /\ elapsed =>
                     user_stats[Uploader].disk_space_checks < MaxDiskChecks
                /\ user_stats' =
                     [user_stats EXCEPT ![Uploader] =
                        IF elapsed THEN DiskChecked(@) ELSE @]
                /\ up_pc' = IF DiskOk(elapsed, verdict) THEN "gsp_call"
                                                        ELSE "loop"
    /\ UNCHANGED <<total_files_created, files_per_subfolder, gsp_stack,
                   gsp_ret, subfolder_path, subfolder_templates, stats_lock,
                   global_stats, used_subfolders, faults, capFrame>>

\* a generate_subfolder_path that looks for another path only above the cap
GspCall_aboveCap ==
    /\ up_pc = "gsp_call"
    /\ \E path \in subfolder_templates :
         LET fresh == path \notin used_subfolders[Uploader]
             counts == IF fresh
                         THEN [p \in DOMAIN files_per_subfolder \cup {path} |->
                                 IF p = path THEN 0
                                 ELSE files_per_subfolder[p]]
                         ELSE files_per_subfolder IN
         /\ used_subfolders' =
              [used_subfolders EXCEPT ![Uploader] = @ \cup {path}]
         /\ files_per_subfolder' = counts
         /\ user_stats' =
              [user_stats EXCEPT ![Uploader] =
                 IF fresh THEN SubfolderUsed(@) ELSE @]
         /\ IF counts[path] > MaxFilesPerSubfolder
              THEN IF Len(gsp_stack) >= MaxDepth
                     THEN /\ up_pc' = "raised"
                          /\ gsp_stack' = << >>
                          /\ UNCHANGED gsp_ret
                     ELSE /\ gsp_stack' =
                               <<[path |-> path, attempt |-> 1]>> \o gsp_stack
                          /\ UNCHANGED <<up_pc, gsp_ret>>
              ELSE /\ gsp_ret' = path
                   /\ up_pc' = "gsp_ret"
                   /\ UNCHANGED gsp_stack
    /\ UNCHANGED <<total_files_created, subfolder_path, subfolder_templates,
                   stats_lock, global_stats, faults, capFrame>>

\* a call of generate_subfolder_path, lines 338-384: a path is drawn and
\* tracked; below the cap it is returned; at the cap the first attempt of
\* the loop calls generate_subfolder_path again, which raises RecursionError
\* when the interpreter's limit is reached
GspCall ==
    /\ up_pc = "gsp_call"
    /\ \E path \in subfolder_templates :
         LET fresh == path \notin used_subfolders[Uploader]
             counts == IF fresh
                         THEN [p \in DOMAIN files_per_subfolder \cup {path} |->
                                 IF p = path THEN 0
                                 ELSE files_per_subfolder[p]]
                         ELSE files_per_subfolder IN
         /\ used_subfolders' =
              [used_subfolders EXCEPT ![Uploader] = @ \cup {path}]
         /\ files_per_subfolder' = counts
         /\ user_stats' =
              [user_stats EXCEPT ![Uploader] =
                 IF fresh THEN SubfolderUsed(@) ELSE @]
         /\ IF counts[path] >= MaxFilesPerSubfolder
              THEN IF Len(gsp_stack) >= MaxDepth
                     THEN /\ up_pc' = "raised"
                          /\ gsp_stack' = << >>
                          /\ UNCHANGED gsp_ret
                     ELSE /\ gsp_stack' =
                               <<[path |-> path, attempt |-> 1]>> \o gsp_stack
                          /\ UNCHANGED <<up_pc, gsp_ret>>
              ELSE /\ gsp_ret' = path
                   /\ up_pc' = "gsp_ret"
                   /\ UNCHANGED gsp_stack
    /\ UNCHANGED <<total_files_created, subfolder_path, subfolder_templates,
                   stats_lock, global_stats, faults, capFrame>>

\* a call of generate_subfolder_path has returned: to upload_operation, or
\* to the loop of the call that made it (lines 383-388), which returns the
\* new path when it differs from its own and is below the cap, makes its
\* next attempt, or after the last one returns its own path
GspReturn ==
    /\ up_pc = "gsp_ret"
    /\ IF gsp_stack = << >>
         THEN /\ subfolder_path' = gsp_ret
              /\ gsp_ret' = None
              /\ up_pc' = "up_body"
              /\ UNCHANGED gsp_stack
         ELSE LET caller == Head(gsp_stack) IN
              /\ UNCHANGED subfolder_path
              /\ IF /\ gsp_ret # caller.path
                    /\ FilesIn_subfolder(gsp_ret) < MaxFilesPerSubfolder
                   THEN /\ gsp_stack' = Tail(gsp_stack)
                        /\ UNCHANGED <<gsp_ret, up_pc>>
                   ELSE IF caller.attempt < GSP_ATTEMPTS
                     THEN /\ gsp_stack' =
                               <<[caller EXCEPT !.attempt = @ + 1]>>
                                  \o Tail(gsp_stack)
                          /\ gsp_ret' = None
                          /\ up_pc' = "gsp_call"
                     ELSE /\ gsp_stack' = Tail(gsp_stack)
                          /\ gsp_ret' = caller.path
                          /\ UNCHANGED up_pc
    /\ UNCHANGED <<total_files_created, files_per_subfolder,
                   subfolder_templates, statsVars, used_subfolders, faults,
                   capFrame>>

\* the rest of upload_operation, lines 575-632: the file is generated and
\* copied, and after a successful copy counted for its subfolder, for the
\* actor and in the statistics; or generate_file or the copy fails and an
\* error is counted.  The local file is removed in every case.
UploadBody_step ==
    /\ up_pc = "up_body"
    /\ \/ \E size \in ObjectSizes :
            /\ files_per_subfolder' =
                 [files_per_subfolder EXCEPT ![subfolder_path] = @ + 1]
            /\ total_files_created' = total_files_created + 1
            /\ global_stats' =
                 TtlApplied(UploadGlobal(FileCreatedGlobal(global_stats, size),
                                         size))
            /\ user_stats' =
                 [user_stats EXCEPT ![Uploader] =
                    UploadUser(FileCreatedUser(@, size), size)]
            /\ UNCHANGED faults
       \/ /\ Fault(FALSE)
          /\ global_stats' = ErrorGlobal(global_stats)
          /\ user_stats' =
               [user_stats EXCEPT ![Uploader] = ErrorUser(@)]
          /\ UNCHANGED <<files_per_subfolder, total_files_created>>
    /\ up_pc' = "loop"
    /\ subfolder_path' = None
    /\ UNCHANGED <<gsp_stack, gsp_ret, subfolder_templates, stats_lock,
                   used_subfolders, capFrame>>

NextUploads ==
    \/ UploaderInit
    \/ RunUpload
    \/ UploadStart
    \/ GspCall
    \/ GspReturn
    \/ UploadBody_step

SpecUploads == Init /\ [][NextUploads]_vars

\* C32: the number of objects an actor has uploaded under any one subfolder
\* path never exceeds the cap; once a subfolder's count has reached the cap,
\* what generate_subfolder_path returns is a different subfolder, whose
\* count is below the cap.
C32_SubfolderCapHolds ==
    /\ \A p \in DOMAIN files_per_subfolder :
         files_per_subfolder[p] <= MaxFilesPerSubfolder
    /\ up_pc = "up_body" =>
         FilesIn_subfolder(subfolder_path) < MaxFilesPerSubfolder

C32_Witness ==
    /\ up_pc = "up_body"
    /\ \E p \in DOMAIN files_per_subfolder :
         /\ p # subfolder_path
         /\ files_per_subfolder[p] = MaxFilesPerSubfolder

\* C37: generate_subfolder_path terminates and returns a path in every
\* reachable state, also when every path the actor's templates can produce
\* has reached the cap: no call of it ends in an error of the interpreter.
C37_SubfolderPathReturns == up_pc # "raised"

Ancestors(p) == {SubSeq(p, 1, k) : k \in 0..(Len(p) - 1)}

\* C33: the final cleanup removes directories only when they are empty,
\* children before parents: a directory that is removed has nothing left
\* under it; a directory that contains a registered file, and every
\* ancestor of it up to the temp root, is left in place; the temp root is
\* removed only when nothing remains under it; no file is removed by it.
C33_OnlyEmptyDirsRemoved ==
    [][(sup_pc = "rmdirs" /\ sup_pc' = "finished")
        => /\ files' = files
           /\ dirs' \subseteq dirs
           /\ \A d \in dirs \ dirs' :
                /\ FilesBelow(files, d) = {}
                /\ \A e \in dirs' : d \notin Ancestors(e)
           /\ \A f \in files :
                is_file_in_use(active_operations, f)
                  => \A d \in Ancestors(f) : d \in dirs => d \in dirs'
           /\ TEMP_DIR \in dirs \ dirs' => files = {} /\ dirs' = {}]_vars

C33_Witness ==
    /\ sup_pc = "finished"
    /\ \E u \in Users :
         /\ \E f \in files : /\ is_file_in_use(active_operations, f)
                             /\ user_temp_dir(u) \in Ancestors(f)
         /\ user_temp_dir(u) \in dirs
         /\ TEMP_DIR \in dirs
         /\ \E v \in Users : user_temp_dir(v) \notin dirs


(* ------------------------------------------------------------------------ *)
(* wait_for_user_operations_complete (lines 206-214) as run's finally       *)
(* block calls it (lines 873-907), from every registry and every set of     *)
(* files over the model's paths; the records are dropped by                 *)
(* unregister_operation in other threads while the actor waits.             *)
(* ------------------------------------------------------------------------ *)

\* the polls that fit in the timeout (30 s at one poll per 0.1 s)
MaxPolls == 2

\* the actor that is shutting down
Drainer == UserOrder[1]

InitDrain ==
    /\ pc = [u \in Users |-> IF u = Drainer THEN "drain" ELSE "done"]
    /\ user_stopped = [u \in Users |-> u # Drainer]
    /\ files \in SUBSET FilePaths
    /\ \E S \in SUBSET FilePaths : active_operations = RegistryOf(S)
    /\ bucket_of = [u \in Users |-> "b1"]
    /\ created_buckets = {"b1"}
    /\ bucket_creation_lock = None
    /\ stats_lock = None
    /\ global_stats = InitGlobalStats
    /\ user_stats = [u \in Users |-> InitUserStats]
    /\ running = FALSE
    /\ shutdown_event = TRUE
    /\ dirs = DirPaths
    /\ local_path = [u \in Users |-> NoPath]
    /\ size_bytes = [u \in Users |-> 0]
    /\ success = [u \in Users |-> FALSE]
    /\ used_subfolders = [u \in Users |-> {}]
    /\ iterations = [u \in Users |-> 0]
    /\ last_disk_check = [u \in Users |-> 0]
    /\ mb_issued = [b \in Buckets |-> 0]
    /\ ebe_result = [u \in Users |-> "True"]
    /\ sup_pc = "wait"
    /\ sup_i = 1
    /\ completed_users = << >>
    /\ walk_pending = {}
    /\ walk_files = {}
    /\ remaining_files = << >>
    /\ protected_files = << >>
    /\ files_removed = 0
    /\ rep_pc = "wait"
    /\ scenario = NoScenario
    /\ faults = 0
    /\ InitWait
    /\ InitLock
    /\ InitDisk
    /\ InitListing
    /\ InitUploads
    /\ InitCalc
    /\ drain_pc = "wait"
    /\ polls_left = MaxPolls
    /\ wait_result = "none"

drainFrame ==
    <<pc, bucketVars, statsVars, flagVars, fsVars, localVars, supVars,
      cleanupVars, bucket_of, rep_pc, scenario, faults, waitVars, lockVars,
      diskVars, calcVars, listVars, capVars>>

\* a wait that answers True when its time is up
WaitPoll_trueOnTimeout(u) ==
    /\ pc[u] = "drain"
    /\ drain_pc = "wait"
    /\ IF polls_left = 0
            \/ get_active_operations_for_user(active_operations, u) = {}
         THEN /\ wait_result' = "True"
              /\ drain_pc' = "returned"
              /\ UNCHANGED polls_left
         ELSE /\ \E k \in 0..(polls_left - 1) : polls_left' = k
              /\ UNCHANGED <<drain_pc, wait_result>>
    /\ UNCHANGED <<registryVars, drainFrame>>

\* one turn of the loop of wait_for_user_operations_complete: with the
\* timeout elapsed it returns False; otherwise it polls the registry,
\* returns True when no record is owned by the actor, and else sleeps (the
\* thread may be scheduled late, so more than one poll's time can pass)
WaitPoll(u) ==
    /\ pc[u] = "drain"
    /\ drain_pc = "wait"
    /\ IF polls_left = 0
         THEN /\ wait_result' = "False"
              /\ drain_pc' = "returned"
              /\ UNCHANGED polls_left
         ELSE IF get_active_operations_for_user(active_operations, u) = {}
           THEN /\ wait_result' = "True"
                /\ drain_pc' = "returned"
                /\ UNCHANGED polls_left
           ELSE /\ \E k \in 0..(polls_left - 1) : polls_left' = k
                /\ UNCHANGED <<drain_pc, wait_result>>
    /\ UNCHANGED <<registryVars, drainFrame>>

\* the rest of the finally block after the wait has returned: its result is
\* logged only, and the private cleanup follows
DrainAfterWait(u) ==
    /\ drain_pc = "returned"
    /\ DrainCleanup(u)

\* unregister_operation(path) in another thread while the actor waits
OtherUnregisters ==
    /\ drain_pc = "wait"
    /\ \E f \in DOMAIN active_operations :
         active_operations' = unregister_operation(active_operations, f)
    /\ UNCHANGED <<drainVars, drainFrame>>

DrainStep == WaitPoll(Drainer) \/ DrainAfterWait(Drainer) \/ ActorStopped(Drainer)

NextDrain == DrainStep \/ OtherUnregisters

\* the actor's thread is scheduled again and again
SpecDrain == InitDrain /\ [][NextDrain]_vars /\ WF_vars(DrainStep)

\* C34: wait_for_user_operations_complete returns true iff a poll made
\* before the timeout elapsed found no record owned by the actor in the
\* registry, and false otherwise; in both cases the draining actor goes on
\* to its private cleanup and then sets its stopped acknowledgment.
C34_WaitResultAndDrain ==
    /\ [][(drain_pc = "wait" /\ polls_left' = polls_left
                             /\ active_operations' = active_operations)
           => /\ drain_pc' = "returned"
              /\ wait_result' = "True" <=>
                   /\ polls_left > 0
                   /\ get_active_operations_for_user(active_operations,
                                                     Drainer) = {}
              /\ wait_result' = "False" <=> ~(wait_result' = "True")]_vars
    /\ [](drain_pc = "wait" => wait_result = "none")
    /\ [][/\ pc[Drainer] # pc'[Drainer] =>
               /\ drain_pc = "returned"
               /\ pc[Drainer] = "drain" =>
                    /\ pc'[Drainer] = "stopping"
                    /\ files' = files \ DrainRemovable(Drainer)
               /\ pc[Drainer] = "stopping" =>
                    /\ pc'[Drainer] = "done"
                    /\ user_stopped'[Drainer]
          /\ user_stopped'[Drainer] # user_stopped[Drainer]
               => pc[Drainer] = "stopping"]_vars
    /\ (drain_pc = "wait") ~> user_stopped[Drainer]

\* the wait has timed out on a record that was never dropped and the actor
\* has acknowledged, its registered file left on disk
C34_Witness ==
    /\ wait_result = "False"
    /\ user_stopped[Drainer]
    /\ \E f \in files : /\ is_file_in_use(active_operations, f)
                        /\ f \in FilesBelow(files, user_temp_dir(Drainer))

\* the wait returned True after a record of the actor was dropped
C34_WitnessTrue ==
    /\ wait_result = "True"
    /\ polls_left < MaxPolls
    /\ user_stopped[Drainer]


(* ------------------------------------------------------------------------ *)
(* The files of an actor                                                    *)
(* ------------------------------------------------------------------------ *)

\* path p lies inside the directory of actor u
InOwnDirectory(u, p) == user_temp_dir(u) \in Ancestors(p)

CleanShutdown ==
    /\ sup_pc = "finished"
    /\ Range(completed_users) = Users

\* C36: no orphaned state after a clean shutdown: if every actor sets its
\* stopped acknowledgment within the supervisor's wait, then when the
\* shutdown sequence has finished the registry is empty, no file was
\* counted as protected, and no file and no directory remains under the
\* temp root, which is removed itself.
C36_CleanShutdownLeavesNothing ==
    CleanShutdown =>
        /\ \A u \in Users : user_stopped[u]
        /\ active_operations = EmptyMap
        /\ protected_files = << >>
        /\ files = {}
        /\ dirs = {}

\* a clean shutdown after both actors have created files, one of them having
\* failed an operation
C36_Witness ==
    /\ CleanShutdown
    /\ \A u \in Users : user_stats[u].files_created > 0
    /\ global_stats.errors > 0
    /\ dirs = {}


(* ------------------------------------------------------------------------ *)
(* The records of an actor                                                  *)
(* ------------------------------------------------------------------------ *)

\* C38: each actor owns at most one live record, that record's path lies
\* inside the actor's own directory, and no two actors register the same
\* path; hence a registration never replaces the record of another action
\* in flight and unregistering a path drops only a record of the actor that
\* takes the step.
C38_OneRecordPerActor ==
    /\ [](\A u \in Users :
            LET owned == get_active_operations_for_user(active_operations, u) IN
            /\ \A p, q \in owned : p = q
            /\ \A p \in owned : InOwnDirectory(u, p))
    /\ [][/\ \A p \in DOMAIN active_operations \cap DOMAIN active_operations' :
               active_operations'[p] = active_operations[p]
          /\ \A p \in DOMAIN active_operations \ DOMAIN active_operations' :
               \A u \in Users :
                  pc'[u] # pc[u] => active_operations[p].user_id = u]_vars

\* both actors hold a record at once, one in its upload, one in its download
C38_Witness ==
    \E u, v \in Users :
        /\ u # v
        /\ \E p \in DOMAIN active_operations :
             /\ active_operations[p] = [type |-> "upload", user_id |-> u]
             /\ p = local_path[u]
        /\ \E q \in DOMAIN active_operations :
             /\ active_operations[q] = [type |-> "download", user_id |-> v]
             /\ q = local_path[v]


(* ------------------------------------------------------------------------ *)
(* The order of the locks.  operations_lock (an RLock) is held only inside  *)
(* the four registry functions (lines 181-204), which acquire nothing, so   *)
(* a registry step is one step here; stats_lock and bucket_creation_lock    *)
(* are held across steps.                                                   *)
(* ------------------------------------------------------------------------ *)

\* the threads that take locks
Threads == Users \cup {"main", "reporter"}

\* thread t holds no lock
HoldsNoLock(t) == stats_lock # t /\ bucket_creation_lock # t

\* the thread that holds the stats mutex can take its next step
StatsHolderRuns ==
    /\ stats_lock \in Users => ENABLED ActorStep(stats_lock)
    /\ stats_lock = "main" => ENABLED SupReportLeave
    /\ stats_lock = "reporter" => ENABLED RepLeave

\* the thread that holds the bucket mutex can take its next step, or waits
\* for the stats mutex, which another thread holds
BucketHolderRuns ==
    bucket_creation_lock \in Users =>
        \/ ENABLED ActorStep(bucket_creation_lock)
        \/ stats_lock \notin {None, bucket_creation_lock}

\* C40: the three locks are acquired in an order that admits no cycle and
\* the stats mutex is never re-acquired by the thread that holds it: the
\* holder of the stats mutex can always go on, the holder of the bucket
\* mutex waits for the stats mutex at most, the bucket mutex is never
\* requested by a thread that holds the stats mutex, and the registry is
\* used only by a thread that holds neither; so in no state is every thread
\* blocked on a lock.
C40_NoLockCycle ==
    /\ [](StatsHolderRuns /\ BucketHolderRuns)
    /\ [](stats_lock \in Threads \cup {None}
            /\ bucket_creation_lock \in Users \cup {None})
    /\ [][/\ (bucket_creation_lock' # bucket_creation_lock
                 /\ bucket_creation_lock' # None)
               => /\ bucket_creation_lock = None
                  /\ stats_lock # bucket_creation_lock'
          /\ (stats_lock' # stats_lock /\ stats_lock' # None)
               => stats_lock = None
          /\ active_operations' # active_operations
               => \A u \in Users : pc'[u] # pc[u] => HoldsNoLock(u)]_vars

\* an actor holds the bucket mutex and, inside it, the stats mutex, while the
\* other actor waits for the bucket mutex and the reporter for the stats
\* mutex
C40_Witness ==
    \E u, v \in Users :
        /\ u # v
        /\ bucket_creation_lock = u
        /\ stats_lock = u
        /\ pc[v] = "start"
        /\ rep_pc = "wait"
        /\ running /\ ~shutdown_event

====
